---- MODULE Spec2Model ----
(***************************************************************************)
(* Santorini: the board (src/santorini/board.py), the pieces               *)
(* (src/santorini/player.py), the geometry helpers (src/santorini/utils.py)*)
(* and the click-driven game state machine (src/santorini/game.py).        *)
(*                                                                         *)
(* The specifications share the variables:                                 *)
(*   SpecBoard  one Board on which the Board operations are applied to     *)
(*              boards injected the way tests/conftest.py injects them;    *)
(*   SpecCapped the same with either capped height injected;               *)
(*   Spec       one Game driven by clicks, from Game.__init__ on;          *)
(*   SpecCrowded the same with the workers placed side by side;            *)
(*   SpecLive   the same with legal actions only and weak fairness;        *)
(*   SpecTurn   the same with the start of each turn remembered;           *)
(*   SpecStep   one Game driven by step(action), as src/cli.py drives it;  *)
(*   SpecEnv    one SantoriniEnv (src/santorini/env.py) around such a Game;*)
(*   SpecRender the same with the clicks of src/santorini/renderer.py;     *)
(*   SpecCodec  the action codec of utils.py on every action integer;      *)
(*   SpecSized  the action codec on grids of other sizes than 5.           *)
(***************************************************************************)
EXTENDS Integers, Sequences, FiniteSets, TLC

\* ------------------------------------------------------------------ bounds
\* Board(grid_size): side of the square board the model explores.
GridSize == 3
\* Board(max_building_height) of the boards a Game builds in Spec.
GameMaxHeight == 1
\* Cells (by space index) an injected state_data may populate.
FixtureSpan == 2
\* Board operations applied to one injected board in SpecBoard.
MaxBoardOps == 1
\* Turns completed in Spec, over all games, before the model stops clicking.
MaxTurns == 2
\* Restarts from the game-over screen in Spec.
MaxRestarts == 1

\* ------------------------------------------------------- program constants
NUM_WORKERS == 2
MAX_BUILDING_HEIGHT == 3
GRID_SIZE == 5
WIDTH == 320
\* math.inf, the height of a capped cell: above every finite height.
Inf == 99

VARIABLES
    \* Board
    board_worker,        \* _state[position][0]: a worker reference, EmptyWorker for Worker()
    board_height,        \* _state[position][1]
    board_game_over,     \* _game_over
    max_building_height, \* _max_building_height
    selected_position,   \* _selected_position
    selected_worker,     \* _selected_worker
    \* Worker objects, in creation order; a worker reference is an index
    workers,
    \* Game
    game_state,          \* _game_state
    players,             \* _players: per player the list of its worker references
    current_player_index,
    num_placed_workers,
    moved_worker,
    player_action_sate,
    winner,
    \* the operation applied last (history, read by the properties only)
    last,
    nops,
    \* completed turns of the game being played, and restarts so far
    turns,
    restarts,
    \* SantoriniEnv (env.py): the adapter's own state around its Game
    env,
    \* the board a click-driven turn started from (history, read by the
    \* properties only)
    turn_start,
    \* PygameRenderer (renderer.py): the selection of the human player
    renderer

vars == << board_worker, board_height, board_game_over, max_building_height,
           selected_position, selected_worker, workers, game_state, players,
           current_player_index, num_placed_workers, moved_worker,
           player_action_sate, winner, last, nops, turns, restarts,
           env, turn_start, renderer >>

\* what only SpecEnv, SpecTurn and SpecRender write
auxVars == << env, turn_start, renderer >>

boardVars == << board_worker, board_height, board_game_over, max_building_height,
                selected_position, selected_worker, workers >>

gameVars == << game_state, players, current_player_index, num_placed_workers,
               moved_worker, player_action_sate, winner >>

\* ---------------------------------------------------------------- values
\* no SantoriniEnv has been built; no renderer; no turn has been started
NoEnv == [ built |-> FALSE ]
NoRenderer == [ built |-> FALSE ]
NoTurn == [ taken |-> FALSE ]
Coords == 0 .. (GridSize - 1)
Pos == Coords \X Coords
\* Positions the operations are called with: the board and one ring around it.
ExtCoords == -1 .. GridSize
ExtPos == ExtCoords \X ExtCoords
\* None, for a position or a worker reference
NoPos == << >>
None == 0
\* Worker(): no player, no id. Every Worker() is equal to every other.
EmptyWorker == 0

Abs(n) == IF n < 0 THEN -n ELSE n
Max2(a, b) == IF a > b THEN a ELSE b

\* ---------------------------------------------------------- utils.py
\* Faulty variant of is_adjacent: diagonal neighbours are left out.
is_adjacent_Orthogonal(position1, position2) ==
    IF Abs(position1[1] - position2[1]) + Abs(position1[2] - position2[2]) # 1
    THEN FALSE
    ELSE TRUE

is_adjacent(position1, position2) ==
    IF Max2(Abs(position1[1] - position2[1]), Abs(position1[2] - position2[2])) # 1
    THEN FALSE
    ELSE TRUE

space_position_to_index(space_position) ==
    space_position[1] * GridSize + space_position[2]

\* ---------------------------------------------------------- player.py
NewWorker(player_id, worker_id) ==
    [ player |-> player_id, worker_id |-> worker_id, position |-> NoPos,
      valid_moves |-> {}, valid_builds |-> {} ]

\* Player.__bool__: bool(self._player_id); None is 0 here.
PlayerBool(player_id) == player_id # 0

\* Worker.__bool__: bool(self._player or self._worker_id)
WorkerBool(ws, w) ==
    IF w = EmptyWorker
    THEN FALSE
    ELSE PlayerBool(ws[w].player) \/ ws[w].worker_id # 0

\* Worker.__eq__: same player object and same worker id.
WorkerEq(ws, a, b) ==
    LET pa == IF a = EmptyWorker THEN 0 ELSE ws[a].player
        ia == IF a = EmptyWorker THEN 0 ELSE ws[a].worker_id + 1
        pb == IF b = EmptyWorker THEN 0 ELSE ws[b].player
        ib == IF b = EmptyWorker THEN 0 ELSE ws[b].worker_id + 1
    IN pa = pb /\ ia = ib

\* ---------------------------------------------------------- board.py
\* The empty Board(): defaultdict(lambda: [Worker(), 0]).
EmptyBoardWorker == [ p \in ExtPos |-> EmptyWorker ]
EmptyBoardHeight == [ p \in ExtPos |-> 0 ]

get_position_worker(bw, position) ==
    IF position \in DOMAIN bw THEN bw[position] ELSE EmptyWorker

get_position_height(bh, position) ==
    IF position \in DOMAIN bh THEN bh[position] ELSE 0

is_on_board(position) ==
    IF 0 <= position[1] /\ position[1] < GridSize
       /\ 0 <= position[2] /\ position[2] < GridSize
    THEN TRUE
    ELSE FALSE

\* current_height + 1, where math.inf + 1 is math.inf
PlusOne(h) == IF h = Inf THEN Inf ELSE h + 1

\* Faulty variant of can_move: the height of the target is not looked at.
can_move_AnyHeight(bw, bh, ws, worker_position, target_position) ==
    IF ~is_on_board(worker_position) \/ ~is_on_board(target_position)
    THEN FALSE
    ELSE IF ~is_adjacent(worker_position, target_position)
    THEN FALSE
    ELSE IF ~WorkerBool(ws, get_position_worker(bw, worker_position))
            \/ WorkerBool(ws, get_position_worker(bw, target_position))
    THEN FALSE
    ELSE TRUE

can_move(bw, bh, ws, worker_position, target_position) ==
    IF ~is_on_board(worker_position) \/ ~is_on_board(target_position)
    THEN FALSE
    ELSE IF ~is_adjacent(worker_position, target_position)
    THEN FALSE
    ELSE IF ~WorkerBool(ws, get_position_worker(bw, worker_position))
            \/ WorkerBool(ws, get_position_worker(bw, target_position))
    THEN FALSE
    ELSE IF get_position_height(bh, target_position)
               > PlusOne(get_position_height(bh, worker_position))
    THEN FALSE
    ELSE TRUE

\* Faulty variant of can_build: a worker on the build position is not looked at.
can_build_OverWorker(bw, bh, ws, worker_position, build_position) ==
    IF ~is_on_board(worker_position) \/ ~is_on_board(build_position)
    THEN FALSE
    ELSE IF ~is_adjacent(worker_position, build_position)
    THEN FALSE
    ELSE IF get_position_height(bh, build_position) = Inf
    THEN FALSE
    ELSE TRUE

can_build(bw, bh, ws, worker_position, build_position) ==
    IF ~is_on_board(worker_position) \/ ~is_on_board(build_position)
    THEN FALSE
    ELSE IF ~is_adjacent(worker_position, build_position)
    THEN FALSE
    ELSE IF get_position_height(bh, build_position) = Inf
    THEN FALSE
    ELSE IF WorkerBool(ws, get_position_worker(bw, build_position))
    THEN FALSE
    ELSE TRUE

\* Faulty variant of can_place: a worker on the position is not looked at.
can_place_Anywhere(bw, ws, position) ==
    IF ~is_on_board(position) THEN FALSE ELSE TRUE

can_place(bw, ws, position) ==
    IF ~is_on_board(position)
    THEN FALSE
    ELSE IF WorkerBool(ws, get_position_worker(bw, position))
    THEN FALSE
    ELSE TRUE

Neighbours(position) ==
    { << position[1] + i, position[2] + j >> : i \in -1 .. 1, j \in -1 .. 1 }
        \ { position }

\* update_worker_valid_moves: the worker list with the worker's cache recomputed
update_worker_valid_moves(bw, bh, ws, w) ==
    IF WorkerBool(ws, w)
    THEN [ ws EXCEPT ![w].valid_moves =
             { t \in Neighbours(ws[w].position) :
                 can_move(bw, bh, ws, ws[w].position, t) } ]
    ELSE ws

\* Faulty variant of update_worker_valid_builds: the cache is left as it was.
update_worker_valid_builds_NoRefresh(bw, bh, ws, w) == ws

update_worker_valid_builds(bw, bh, ws, w) ==
    IF WorkerBool(ws, w)
    THEN [ ws EXCEPT ![w].valid_builds =
             { t \in Neighbours(ws[w].position) :
                 can_build(bw, bh, ws, ws[w].position, t) } ]
    ELSE ws

\* Faulty variant of set_position_worker: the worker's position is not updated.
set_position_worker_NoCache(bw, bh, ws, position, w) ==
    [ bw |-> [ bw EXCEPT ![position] = w ], ws |-> ws ]

\* set_position_worker: the cell, then the worker's position and move cache
set_position_worker(bw, bh, ws, position, w) ==
    LET bw1 == [ bw EXCEPT ![position] = w ]
        ws1 == IF WorkerBool(ws, w)
               THEN update_worker_valid_moves(
                        bw1, bh, [ ws EXCEPT ![w].position = position ], w)
               ELSE ws
    IN [ bw |-> bw1, ws |-> ws1 ]

set_position_height(bh, position, height) == [ bh EXCEPT ![position] = height ]

\* Faulty variant of check_height_win_condition: the flag is never set.
check_height_win_condition_Never(bh, mbh, go, position) == go

check_height_win_condition(bh, mbh, go, position) ==
    IF get_position_height(bh, position) = mbh THEN TRUE ELSE go

\* Faulty variant of move_worker: the source cell is not cleared.
move_worker_KeepSource(bw, bh, ws, mbh, go, current_position, target_position) ==
    LET worker == get_position_worker(bw, current_position)
        s2 == set_position_worker(bw, bh, ws, target_position, worker)
    IN [ bw |-> s2.bw, ws |-> s2.ws,
         go |-> check_height_win_condition(bh, mbh, go, target_position),
         error |-> "none" ]

\* move_worker: no legality check; the mover is whatever the source cell holds
move_worker(bw, bh, ws, mbh, go, current_position, target_position) ==
    LET worker == get_position_worker(bw, current_position)
        s1 == set_position_worker(bw, bh, ws, current_position, EmptyWorker)
        s2 == set_position_worker(s1.bw, bh, s1.ws, target_position, worker)
    IN [ bw |-> s2.bw, ws |-> s2.ws,
         go |-> check_height_win_condition(bh, mbh, go, target_position),
         error |-> "none" ]

\* Faulty variant of build: a full tower gets one more level instead of the cap.
build_NeverCaps(bw, bh, ws, mbh, worker_position, build_position) ==
    IF ~can_build(bw, bh, ws, worker_position, build_position)
    THEN [ bh |-> bh, error |-> "ValueError" ]
    ELSE [ bh |-> set_position_height(bh, build_position,
                      get_position_height(bh, build_position) + 1),
           error |-> "none" ]

\* Faulty variant of build: can_build is not asked.
build_Unchecked(bw, bh, ws, mbh, worker_position, build_position) ==
    IF get_position_height(bh, build_position) < mbh
    THEN [ bh |-> set_position_height(bh, build_position,
                      get_position_height(bh, build_position) + 1),
           error |-> "none" ]
    ELSE [ bh |-> set_position_height(bh, build_position, Inf), error |-> "none" ]

\* Faulty variant of build: the cell of the builder is raised as well.
build_RaisesBoth(bw, bh, ws, mbh, worker_position, build_position) ==
    IF ~can_build(bw, bh, ws, worker_position, build_position)
    THEN [ bh |-> bh, error |-> "ValueError" ]
    ELSE LET bh1 == set_position_height(bh, worker_position,
                        get_position_height(bh, worker_position) + 1)
         IN IF get_position_height(bh, build_position) < mbh
            THEN [ bh |-> set_position_height(bh1, build_position,
                              get_position_height(bh, build_position) + 1),
                   error |-> "none" ]
            ELSE [ bh |-> set_position_height(bh1, build_position, Inf),
                   error |-> "none" ]

\* build: ValueError("That is not a valid build position.") unless can_build
build(bw, bh, ws, mbh, worker_position, build_position) ==
    IF ~can_build(bw, bh, ws, worker_position, build_position)
    THEN [ bh |-> bh, error |-> "ValueError" ]
    ELSE IF get_position_height(bh, build_position) < mbh
    THEN [ bh |-> set_position_height(bh, build_position,
                      get_position_height(bh, build_position) + 1),
           error |-> "none" ]
    ELSE [ bh |-> set_position_height(bh, build_position, Inf), error |-> "none" ]

place(bw, bh, ws, position, w) == set_position_worker(bw, bh, ws, position, w)

\* ------------------------------------------------ SpecBoard: one Board
\* Heights a cell holds: 0 .. max_building_height, or math.inf once capped.
HeightValues == (0 .. MAX_BUILDING_HEIGHT) \cup { Inf }

\* The cells an injected state_data populates (tests/conftest.py builds the
\* populated board by assigning board._state; every other cell is the default).
FixtureCells == { p \in Pos : space_position_to_index(p) < FixtureSpan }

\* worker_a1 and worker_b1 of tests/conftest.py: never placed through
\* set_position_worker, so their position and caches are still None.
FixtureWorkers == << NewWorker(1, 1), NewWorker(2, 1) >>

NoOp == [ op |-> "none", a |-> NoPos, b |-> NoPos, ret |-> FALSE, legal |-> FALSE,
          error |-> "none", worker |-> EmptyWorker, height |-> 0, changed |-> FALSE ]

\* Game.__init__
GameConstructed ==
    /\ game_state = "player_select"
    /\ players = << >>
    /\ current_player_index = 0
    /\ num_placed_workers = 0
    /\ moved_worker = None
    /\ player_action_sate = "start_turn"
    /\ winner = None

\* Board() with a state_data assigned to _state
InitBoard ==
    /\ \E hf \in [ FixtureCells -> HeightValues ],
          wf \in [ FixtureCells -> { EmptyWorker, 1, 2 } ] :
          /\ \A p, q \in FixtureCells :
                (p # q /\ wf[p] # EmptyWorker) => wf[p] # wf[q]
          /\ board_height = [ p \in ExtPos |-> IF p \in FixtureCells THEN hf[p] ELSE 0 ]
          /\ board_worker = [ p \in ExtPos |->
                                IF p \in FixtureCells THEN wf[p] ELSE EmptyWorker ]
    /\ board_game_over = FALSE
    /\ max_building_height = MAX_BUILDING_HEIGHT
    /\ selected_position = NoPos
    /\ selected_worker = None
    /\ workers = FixtureWorkers
    /\ GameConstructed
    /\ last = NoOp
    /\ nops = 0
    /\ turns = 0
    /\ restarts = 0
    /\ env = NoEnv
    /\ turn_start = NoTurn
    /\ renderer = NoRenderer

\* board.can_move(a, b)
BoardCanMove(a, b) ==
    /\ nops < MaxBoardOps
    /\ nops' = nops + 1
    /\ last' = [ NoOp EXCEPT !.op = "can_move", !.a = a, !.b = b,
                   !.ret = can_move(board_worker, board_height, workers, a, b) ]
    /\ UNCHANGED << boardVars, gameVars, turns, restarts >>

\* board.can_build(a, b)
BoardCanBuild(a, b) ==
    /\ nops < MaxBoardOps
    /\ nops' = nops + 1
    /\ last' = [ NoOp EXCEPT !.op = "can_build", !.a = a, !.b = b,
                   !.ret = can_build(board_worker, board_height, workers, a, b) ]
    /\ UNCHANGED << boardVars, gameVars, turns, restarts >>

\* board.move_worker(a, b)
BoardMoveWorker(a, b) ==
    /\ nops < MaxBoardOps
    /\ nops' = nops + 1
    /\ LET r == move_worker(board_worker, board_height, workers,
                            max_building_height, board_game_over, a, b)
       IN /\ board_worker' = r.bw
          /\ workers' = r.ws
          /\ board_game_over' = r.go
          /\ last' = [ NoOp EXCEPT !.op = "move_worker", !.a = a, !.b = b,
                         !.legal = can_move(board_worker, board_height, workers, a, b),
                         !.error = r.error,
                         !.worker = get_position_worker(board_worker, a),
                         !.height = get_position_height(board_height, b),
                         !.changed = (r.bw # board_worker) ]
    /\ UNCHANGED << board_height, max_building_height, selected_position,
                    selected_worker, gameVars, turns, restarts >>

\* board.build(a, b)
BoardBuild(a, b) ==
    /\ nops < MaxBoardOps
    /\ nops' = nops + 1
    /\ LET r == build(board_worker, board_height, workers, max_building_height, a, b)
       IN /\ board_height' = r.bh
          /\ last' = [ NoOp EXCEPT !.op = "build", !.a = a, !.b = b,
                         !.legal = can_build(board_worker, board_height, workers, a, b),
                         !.error = r.error,
                         !.worker = get_position_worker(board_worker, a),
                         !.height = get_position_height(board_height, b),
                         !.changed = (r.bh # board_height) ]
    /\ UNCHANGED << board_worker, board_game_over, max_building_height,
                    selected_position, selected_worker, workers, gameVars,
                    turns, restarts >>

NextBoard ==
    /\ nops < MaxBoardOps
    /\ \/ \E a, b \in ExtPos : BoardCanMove(a, b)
       \/ \E a, b \in ExtPos : BoardCanBuild(a, b)
       \/ \E a, b \in ExtPos : BoardMoveWorker(a, b)
       \/ \E a, b \in ExtPos : BoardBuild(a, b)
    /\ UNCHANGED auxVars

SpecBoard == InitBoard /\ [][NextBoard]_vars

\* ------------------------------------------- properties of the Board
\* Chebyshev distance of two positions
Chebyshev(a, b) == Max2(Abs(a[1] - b[1]), Abs(a[2] - b[2]))

\* The rule of movement as the specification words it, on the present board.
\* Heights are compared as numbers; Inf is above every finite height plus one.
MoveRule(a, b) ==
    /\ a \in Pos
    /\ b \in Pos
    /\ Chebyshev(a, b) = 1
    /\ board_worker[a] # EmptyWorker
    /\ board_worker[b] = EmptyWorker
    /\ board_height[b] <= board_height[a] + 1

\* The rule of building as the specification words it, on the present board.
BuildRule(a, b) ==
    /\ a \in Pos
    /\ b \in Pos
    /\ Chebyshev(a, b) = 1
    /\ board_height[b] # Inf
    /\ board_worker[b] = EmptyWorker

\* C6: for every board and every pair of positions, can_move(from, to) is
\* true if and only if both positions are on the board, they are at Chebyshev
\* distance exactly 1, from holds a real worker, to holds no worker, and
\* height(to) <= height(from) + 1.
C6_CanMoveIffRule ==
    last.op = "can_move" => (last.ret <=> MoveRule(last.a, last.b))

\* can_move answered True for a step up of exactly one level
C6_Witness ==
    /\ last.op = "can_move"
    /\ last.ret
    /\ board_height[last.b] = board_height[last.a] + 1

\* C7: move_worker(from, to) called when can_move(from, to) is false fails
\* with the invalid-move error and leaves every cell's worker and height
\* unchanged.
C7_IllegalMoveRejected ==
    (last.op = "move_worker" /\ ~last.legal)
        => (last.error = "ValueError" /\ ~last.changed)

\* C8: after a legal move_worker(from, to), the cell at from holds the empty
\* worker and the cell at to holds the very same worker that was at from.
C8_MoveRelocates ==
    (last.op = "move_worker" /\ last.legal)
        => /\ last.worker # EmptyWorker
           /\ board_worker[last.a] = EmptyWorker
           /\ board_worker[last.b] = last.worker

\* a legal move was made, and the mover was the second worker
C8_Witness ==
    /\ last.op = "move_worker"
    /\ last.legal
    /\ last.worker = 2
    /\ board_worker[last.b] = 2

C10_BuildRaisesOrCaps ==
    (last.op = "build" /\ last.legal)
        => /\ last.error = "none"
           /\ last.height < max_building_height
                => board_height[last.b] = last.height + 1
           /\ last.height = max_building_height
                => board_height[last.b] = Inf

\* a full tower was capped by a build
C10_Witness ==
    /\ last.op = "build"
    /\ last.legal
    /\ last.height = max_building_height
    /\ board_height[last.b] = Inf

C38_MoveAndBuildFrame ==
    [][ /\ ( last'.op = "move_worker" /\ last'.legal ) =>
              /\ board_height' = board_height
              /\ \A p \in ExtPos \ { last'.a, last'.b } :
                    board_worker'[p] = board_worker[p]
              /\ board_worker'[last'.a] = EmptyWorker
              /\ board_worker'[last'.b] = board_worker[last'.a]
              /\ \A w \in DOMAIN workers :
                    w # board_worker[last'.a]
                        => workers'[w].position = workers[w].position
        /\ ( last'.op = "build" /\ last'.legal ) =>
              /\ board_worker' = board_worker
              /\ \A w \in DOMAIN workers :
                    workers'[w].position = workers[w].position
              /\ \A p \in ExtPos \ { last'.b } :
                    board_height'[p] = board_height[p]
              /\ board_height'[last'.b] # board_height[last'.b]
      ]_vars

\* a legal build was made next to another worker, by a worker on a raised cell
C38_Witness ==
    /\ last.op = "build"
    /\ last.legal
    /\ last.changed
    /\ board_height[last.a] > 0
    /\ \E p \in Pos \ { last.a } : board_worker[p] # EmptyWorker

\* C36: in every reachable state each cell's height is one of 0, 1, 2, 3 or
\* capped; only a build changes a height, it changes exactly the built cell,
\* heights never decrease, and a capped cell never changes again.
C36_HeightsOnlyGrow ==
    /\ [] ( \A p \in ExtPos : board_height[p] \in HeightValues )
    /\ [][ /\ board_height' # board_height
                => /\ last'.op = "build"
                   /\ last'.error = "none"
                   /\ \A p \in ExtPos \ { last'.b } :
                        board_height'[p] = board_height[p]
           /\ \A p \in ExtPos : board_height'[p] >= board_height[p]
           /\ \A p \in ExtPos :
                board_height[p] = Inf => board_height'[p] = Inf ]_vars

\* A build has raised a cell from 2 to 3 beside a capped cell that stays capped
C36_Witness ==
    /\ last.op = "build"
    /\ last.changed
    /\ last.height = 2
    /\ board_height[last.b] = MAX_BUILDING_HEIGHT
    /\ \E p \in Pos \ { last.b } : board_height[p] = Inf

\* ------------------------- SpecCapped: a Board holding either capped height
\* The heights tests/conftest.py injects: 0 .. max_building_height, and for a
\* capped cell the finite max_building_height + 1 of the fixture as well as
\* the math.inf Board.build writes.
InjectedHeightValues == (0 .. (MAX_BUILDING_HEIGHT + 1)) \cup { Inf }

\* Board() with a state_data assigned to _state, either capped height allowed
InitCapped ==
    /\ \E hf \in [ FixtureCells -> InjectedHeightValues ],
          wf \in [ FixtureCells -> { EmptyWorker, 1, 2 } ] :
          /\ \A p, q \in FixtureCells :
                (p # q /\ wf[p] # EmptyWorker) => wf[p] # wf[q]
          /\ board_height = [ p \in ExtPos |-> IF p \in FixtureCells THEN hf[p] ELSE 0 ]
          /\ board_worker = [ p \in ExtPos |->
                                IF p \in FixtureCells THEN wf[p] ELSE EmptyWorker ]
    /\ board_game_over = FALSE
    /\ max_building_height = MAX_BUILDING_HEIGHT
    /\ selected_position = NoPos
    /\ selected_worker = None
    /\ workers = FixtureWorkers
    /\ GameConstructed
    /\ last = NoOp
    /\ nops = 0
    /\ turns = 0
    /\ restarts = 0
    /\ env = NoEnv
    /\ turn_start = NoTurn
    /\ renderer = NoRenderer

NextCapped ==
    /\ nops < MaxBoardOps
    /\ \/ \E a, b \in ExtPos : BoardCanMove(a, b)
       \/ \E a, b \in ExtPos : BoardMoveWorker(a, b)
    /\ UNCHANGED auxVars

SpecCapped == InitCapped /\ [][NextCapped]_vars

\* The two heights that stand for a capped cell: one past the maximum, or infinite
CappedHeights == { MAX_BUILDING_HEIGHT + 1, Inf }

\* C12: a capped cell is never reachable by movement: can_move(from, to) is
\* false for every capped to and every height of from (0 through
\* max_building_height), whichever representation of capped (max + 1 or
\* infinite) the board holds.
C12_CappedUnreachable ==
    ( /\ last.op = "can_move"
      /\ last.a \in Pos
      /\ last.b \in Pos
      /\ board_height[last.b] \in CappedHeights
      /\ board_height[last.a] \in 0 .. max_building_height )
        => ~last.ret

\* can_move refused a step from a full tower onto an adjacent, free cell capped
\* with the infinite height
C12_Witness ==
    /\ last.op = "can_move"
    /\ ~last.ret
    /\ last.a \in Pos
    /\ last.b \in Pos
    /\ Chebyshev(last.a, last.b) = 1
    /\ board_worker[last.a] # EmptyWorker
    /\ board_worker[last.b] = EmptyWorker
    /\ board_height[last.a] = max_building_height
    /\ board_height[last.b] = Inf

\* ------------------------------------------------ Spec: one Game (game.py)
\* Board.set_selected_position, for a position on the board or None
set_selected_position(sp, position) ==
    IF position = NoPos
    THEN NoPos
    ELSE IF is_on_board(position) THEN position ELSE sp

\* Board.set_selected_worker: a second click on the selected worker unselects it.
\* None == worker is False for every worker.
set_selected_worker(bw, ws, sw, position) ==
    LET worker == get_position_worker(bw, position)
    IN IF sw # None /\ WorkerEq(ws, sw, worker)
       THEN None
       ELSE IF WorkerBool(ws, worker) THEN worker ELSE sw

\* Board.reset_positions is called by Game._end_turn and is not in board.py;
\* it stands for the two calls commented out above the call: selection cleared.
reset_positions(sel) == [ position |-> NoPos, worker |-> None ]

\* The workers of a player's list, and of all lists
RECURSIVE SeqToSet(_)
SeqToSet(s) == IF s = << >> THEN {} ELSE { Head(s) } \cup SeqToSet(Tail(s))

ListedWorkers(ps) == UNION { SeqToSet(ps[i]) : i \in DOMAIN ps }

\* Faulty variant of _update_all_valid_move_actions: only the first player's
\* workers are recomputed.
update_all_valid_move_actions_FirstPlayer(bw, bh, ws, ps) ==
    [ w \in DOMAIN ws |->
        IF w \in SeqToSet(ps[1])
        THEN update_worker_valid_moves(bw, bh, ws, w)[w]
        ELSE ws[w] ]

\* Game._update_all_valid_move_actions: every worker of every player's list
update_all_valid_move_actions(bw, bh, ws, ps) ==
    [ w \in DOMAIN ws |->
        IF w \in ListedWorkers(ps)
        THEN update_worker_valid_moves(bw, bh, ws, w)[w]
        ELSE ws[w] ]

\* Faulty variant of check_cannot_move_lose_condition: the test is inverted.
check_cannot_move_lose_condition_Inverted(ws, player_workers) ==
    IF \E w \in SeqToSet(player_workers) : ws[w].valid_moves # {}
    THEN TRUE
    ELSE FALSE

\* Board.check_cannot_move_lose_condition(player)
check_cannot_move_lose_condition(ws, player_workers) ==
    IF \E w \in SeqToSet(player_workers) : ws[w].valid_moves # {}
    THEN FALSE
    ELSE TRUE

\* Game._player_select: the thirds of the window width
num_players_of(x_position) ==
    IF x_position <= WIDTH \div 3
    THEN 1
    ELSE IF x_position <= (2 * WIDTH) \div 3 THEN 2 ELSE 3

\* Game._init_players: Player(1) .. Player(num_players), no workers yet
init_players(num_players) == [ player_id \in 1 .. num_players |-> << >> ]

\* x positions of a click on the start screen: both sides of each third
ClickXs == { 0, WIDTH \div 3, WIDTH \div 3 + 1, (2 * WIDTH) \div 3,
             (2 * WIDTH) \div 3 + 1, WIDTH - 1 }

\* The cells the placements of Spec are clicked in, in this order (a game of
\* N players uses the first N * NUM_WORKERS of them): player 2 ends up in a
\* corner pocket that the other workers can close, and every player of a
\* one-, two- or three-player game but the last starts with a worker that can move.
SetupOrder == << <<0, 2>>, <<2, 0>>, <<0, 0>>, <<1, 0>>, <<1, 1>>, <<2, 1>> >>

Occupied(bw) == { p \in Pos : bw[p] # EmptyWorker }

\* Clicks of the setup screen: the next cell of SetupOrder, any occupied cell,
\* or a position off the board
SetupClicks ==
    { p \in ExtPos :
        \/ p \notin Pos
        \/ p \in Occupied(board_worker)
        \/ /\ Cardinality(Occupied(board_worker)) < Len(SetupOrder)
           /\ p = SetupOrder[Cardinality(Occupied(board_worker)) + 1] }

\* Game.__init__
Init ==
    /\ board_worker = EmptyBoardWorker
    /\ board_height = EmptyBoardHeight
    /\ board_game_over = FALSE
    /\ max_building_height = GameMaxHeight
    /\ selected_position = NoPos
    /\ selected_worker = None
    /\ workers = << >>
    /\ GameConstructed
    /\ last = NoOp
    /\ nops = 0
    /\ turns = 0
    /\ restarts = 0
    /\ env = NoEnv
    /\ turn_start = NoTurn
    /\ renderer = NoRenderer

\* Faulty variant of PlayerSelectClick: the setup screen is skipped.
PlayerSelectClick_SkipSetup(x_position) ==
    /\ game_state = "player_select"
    /\ players' = init_players(num_players_of(x_position))
    /\ game_state' = "playing"
    /\ UNCHANGED << boardVars, current_player_index, num_placed_workers,
                    moved_worker, player_action_sate, winner, last, nops,
                    turns, restarts >>

\* game_loop in 'player_select': _player_select
PlayerSelectClick(x_position) ==
    /\ game_state = "player_select"
    /\ players' = init_players(num_players_of(x_position))
    /\ game_state' = "setup"
    /\ UNCHANGED << boardVars, current_player_index, num_placed_workers,
                    moved_worker, player_action_sate, winner, last, nops,
                    turns, restarts >>

\* game_loop in 'setup': _select, then _setup_board
SetupClick(position) ==
    /\ game_state = "setup"
    /\ LET sp == set_selected_position(selected_position, position)
           sw == set_selected_worker(board_worker, workers, selected_worker, position)
           w  == Len(workers) + 1
           ws0 == Append(workers,
                         NewWorker(current_player_index + 1, num_placed_workers))
           placed == place(board_worker, board_height, ws0, sp, w)
           ps1 == [ players EXCEPT ![current_player_index + 1] = Append(@, w) ]
           last_player == current_player_index = Len(players) - 1
       IN /\ selected_worker' = sw
          /\ selected_position' = NoPos
          /\ IF sp # NoPos /\ can_place(board_worker, workers, sp)
             THEN /\ board_worker' = placed.bw
                  /\ players' = ps1
                  /\ IF num_placed_workers + 1 = NUM_WORKERS
                     THEN IF last_player
                          THEN /\ workers' = update_all_valid_move_actions(
                                      placed.bw, board_height, placed.ws, ps1)
                               /\ game_state' = "playing"
                               /\ current_player_index' = 0
                               /\ num_placed_workers' = num_placed_workers + 1
                          ELSE /\ workers' = placed.ws
                               /\ num_placed_workers' = 0
                               /\ current_player_index' = current_player_index + 1
                               /\ UNCHANGED game_state
                     ELSE /\ workers' = placed.ws
                          /\ num_placed_workers' = num_placed_workers + 1
                          /\ UNCHANGED << game_state, current_player_index >>
             ELSE UNCHANGED << board_worker, players, workers, game_state,
                               current_player_index, num_placed_workers >>
    /\ UNCHANGED << board_height, board_game_over, max_building_height,
                    moved_worker, player_action_sate, winner, last, nops,
                    turns, restarts >>

\* Faulty variant of game_loop in 'playing': _move_action moves the selected
\* worker whoever owns it.
PlayingClick_AnyOwner(position) ==
    /\ game_state = "playing"
    /\ turns < MaxTurns
    /\ LET sp == set_selected_position(selected_position, position)
           sw == set_selected_worker(board_worker, workers, selected_worker, position)
           \* _start_turn
           pas == IF player_action_sate = "start_turn" THEN "move" ELSE player_action_sate
           turn_player == current_player_index + 1
           moves == /\ pas = "move"
                    /\ sw # None
                    /\ WorkerBool(workers, sw)
                    /\ sp \in workers[sw].valid_moves
           builds == /\ pas = "build"
                     /\ sp \in workers[moved_worker].valid_builds
       IN IF moves
          THEN \* _move_action
               \E mv \in { move_worker(board_worker, board_height, workers,
                                     max_building_height, board_game_over,
                                     workers[sw].position, sp) } :
                  /\ board_worker' = mv.bw
                  /\ board_game_over' = mv.go
                  /\ moved_worker' = sw
                  /\ game_state' = IF mv.go THEN "game_over" ELSE game_state
                  /\ winner' = IF mv.go THEN turn_player ELSE winner
                  /\ workers' = update_worker_valid_builds(
                                    mv.bw, board_height, mv.ws, sw)
                  /\ player_action_sate' = "build"
                  /\ selected_position' = sp
                  /\ selected_worker' = sw
                  /\ UNCHANGED << board_height, current_player_index, turns >>
          ELSE IF builds
          THEN \* _build_action, then _end_turn
               \E b \in { build(board_worker, board_height, workers,
                              max_building_height,
                              workers[moved_worker].position, sp) } :
               \E ws1 \in { update_all_valid_move_actions(
                              board_worker, b.bh, workers, players) } :
               LET next_index == (current_player_index + 1) % Len(players)
                   cleared == reset_positions(sp)
                   lost == check_cannot_move_lose_condition(ws1, players[next_index + 1])
               IN IF b.error = "ValueError"
                  THEN /\ selected_position' = sp
                       /\ selected_worker' = sw
                       /\ UNCHANGED << board_worker, board_height, board_game_over,
                                       moved_worker, game_state, winner, workers,
                                       player_action_sate, current_player_index,
                                       turns >>
                  ELSE /\ board_height' = b.bh
                       /\ workers' = ws1
                       /\ current_player_index' = next_index
                       /\ player_action_sate' = "start_turn"
                       /\ selected_position' = cleared.position
                       /\ selected_worker' = cleared.worker
                       /\ board_game_over' = IF lost THEN TRUE ELSE board_game_over
                       /\ winner' = IF lost THEN turn_player ELSE winner
                       /\ game_state' = IF lost THEN "game_over" ELSE game_state
                       /\ turns' = turns + 1
                       /\ UNCHANGED << board_worker, moved_worker >>
          ELSE /\ selected_position' = sp
               /\ selected_worker' = sw
               /\ player_action_sate' = pas
               /\ UNCHANGED << board_worker, board_height, board_game_over,
                               moved_worker, game_state, winner, workers,
                               current_player_index, turns >>
    /\ UNCHANGED << max_building_height, players, num_placed_workers, last, nops,
                    restarts >>

\* game_loop in 'playing': _select, _start_turn, then _move_action or
\* _build_action, then _end_turn when the build was made
PlayingClick(position) ==
    /\ game_state = "playing"
    /\ turns < MaxTurns
    /\ LET sp == set_selected_position(selected_position, position)
           sw == set_selected_worker(board_worker, workers, selected_worker, position)
           \* _start_turn
           pas == IF player_action_sate = "start_turn" THEN "move" ELSE player_action_sate
           turn_player == current_player_index + 1
           moves == /\ pas = "move"
                    /\ sw # None
                    /\ WorkerBool(workers, sw)
                    /\ workers[sw].player = turn_player
                    /\ sp \in workers[sw].valid_moves
           builds == /\ pas = "build"
                     /\ sp \in workers[moved_worker].valid_builds
       IN IF moves
          THEN \* _move_action
               \E mv \in { move_worker(board_worker, board_height, workers,
                                     max_building_height, board_game_over,
                                     workers[sw].position, sp) } :
                  /\ board_worker' = mv.bw
                  /\ board_game_over' = mv.go
                  /\ moved_worker' = sw
                  /\ game_state' = IF mv.go THEN "game_over" ELSE game_state
                  /\ winner' = IF mv.go THEN turn_player ELSE winner
                  /\ workers' = update_worker_valid_builds(
                                    mv.bw, board_height, mv.ws, sw)
                  /\ player_action_sate' = "build"
                  /\ selected_position' = sp
                  /\ selected_worker' = sw
                  /\ UNCHANGED << board_height, current_player_index, turns >>
          ELSE IF builds
          THEN \* _build_action, then _end_turn
               \E b \in { build(board_worker, board_height, workers,
                              max_building_height,
                              workers[moved_worker].position, sp) } :
               \E ws1 \in { update_all_valid_move_actions(
                              board_worker, b.bh, workers, players) } :
               LET next_index == (current_player_index + 1) % Len(players)
                   cleared == reset_positions(sp)
                   lost == check_cannot_move_lose_condition(ws1, players[next_index + 1])
               IN IF b.error = "ValueError"
                  THEN /\ selected_position' = sp
                       /\ selected_worker' = sw
                       /\ UNCHANGED << board_worker, board_height, board_game_over,
                                       moved_worker, game_state, winner, workers,
                                       player_action_sate, current_player_index,
                                       turns >>
                  ELSE /\ board_height' = b.bh
                       /\ workers' = ws1
                       /\ current_player_index' = next_index
                       /\ player_action_sate' = "start_turn"
                       /\ selected_position' = cleared.position
                       /\ selected_worker' = cleared.worker
                       /\ board_game_over' = IF lost THEN TRUE ELSE board_game_over
                       /\ winner' = IF lost THEN turn_player ELSE winner
                       /\ game_state' = IF lost THEN "game_over" ELSE game_state
                       /\ turns' = turns + 1
                       /\ UNCHANGED << board_worker, moved_worker >>
          ELSE /\ selected_position' = sp
               /\ selected_worker' = sw
               /\ player_action_sate' = pas
               /\ UNCHANGED << board_worker, board_height, board_game_over,
                               moved_worker, game_state, winner, workers,
                               current_player_index, turns >>
    /\ UNCHANGED << max_building_height, players, num_placed_workers, last, nops,
                    restarts >>

\* Faulty variant of GameOverClick: the winner of the finished game is kept.
GameOverClick_KeepWinner ==
    /\ game_state = "game_over"
    /\ restarts < MaxRestarts
    /\ board_worker' = EmptyBoardWorker
    /\ board_height' = EmptyBoardHeight
    /\ board_game_over' = FALSE
    /\ selected_position' = NoPos
    /\ selected_worker' = None
    /\ current_player_index' = 0
    /\ num_placed_workers' = 0
    /\ moved_worker' = None
    /\ game_state' = "setup"
    /\ player_action_sate' = "start_turn"
    /\ restarts' = restarts + 1
    /\ UNCHANGED << max_building_height, workers, players, last, nops, turns,
                    winner >>

\* game_loop in 'game_over': _setup, a new Board and the fields of __init__
\* except the players
GameOverClick ==
    /\ game_state = "game_over"
    /\ restarts < MaxRestarts
    /\ board_worker' = EmptyBoardWorker
    /\ board_height' = EmptyBoardHeight
    /\ board_game_over' = FALSE
    /\ selected_position' = NoPos
    /\ selected_worker' = None
    /\ current_player_index' = 0
    /\ num_placed_workers' = 0
    /\ moved_worker' = None
    /\ game_state' = "setup"
    /\ player_action_sate' = "start_turn"
    /\ winner' = None
    /\ restarts' = restarts + 1
    /\ UNCHANGED << max_building_height, workers, players, last, nops, turns >>

Next ==
    \/ \E x_position \in ClickXs : PlayerSelectClick(x_position) /\ UNCHANGED auxVars
    \/ \E position \in SetupClicks : SetupClick(position) /\ UNCHANGED auxVars
    \/ \E position \in Pos : PlayingClick(position) /\ UNCHANGED auxVars
    \/ GameOverClick /\ UNCHANGED auxVars

Spec == Init /\ [][Next]_vars

\* ------------------------------------------- properties of the Game
\* The step is a move made in 'playing': only _move_action changes the cells'
\* workers while the game is played.
IsMoveStep == game_state = "playing" /\ board_worker' # board_worker

\* C1: in 'playing', whenever the current player's worker makes a legal move
\* onto a cell whose height equals max_building_height, the Game goes to
\* 'game_over' at once with winner = the mover's player, and no build is applied
\* afterwards: every cell height is the same as before the move, and stays so
\* while the game is over.
C1_WinByHeight ==
    [][ /\ ( /\ IsMoveStep
             /\ board_height[workers'[moved_worker'].position] = max_building_height )
          => /\ game_state' = "game_over"
             /\ winner' = workers'[moved_worker'].player
             /\ winner' = current_player_index + 1
             /\ board_height' = board_height
        /\ (game_state = "game_over" /\ game_state' = "game_over")
          => board_height' = board_height ]_vars

\* the game is over by a move onto a full tower, the build still to come
C1_Witness ==
    /\ game_state = "game_over"
    /\ player_action_sate = "build"
    /\ moved_worker # None
    /\ board_height[workers[moved_worker].position] = max_building_height
    /\ winner = workers[moved_worker].player

\* No worker of the player standing on the board has a legal move.
Stranded(bw, bh, ws, player_id) ==
    \A p \in Pos :
        (bw[p] # EmptyWorker /\ ws[bw[p]].player = player_id)
            => \A t \in Pos : ~can_move(bw, bh, ws, p, t)

\* C2: when a turn ends (after the build) and the next player in cyclic order
\* has no worker with any legal move, the Game goes to 'game_over' in that same
\* step, with winner = the player who just moved.
C2_StrandedPlayerLoses ==
    [][ ( /\ game_state = "playing"
          /\ turns' = turns + 1
          /\ Stranded(board_worker', board_height', workers',
                      current_player_index' + 1) )
          => (game_state' = "game_over" /\ winner' = current_player_index + 1) ]_vars

\* the game is over at the end of a turn: the next player was stranded
C2_Witness ==
    /\ game_state = "game_over"
    /\ player_action_sate = "start_turn"
    /\ winner # None
    /\ Stranded(board_worker, board_height, workers, current_player_index + 1)

\* C3: the game state only ever advances in the order 'player_select' ->
\* 'setup' -> 'playing' -> 'game_over'; no step skips a state or moves to an
\* earlier state, except the restart taken from 'game_over'.
C3_StateOrder ==
    [][ \/ game_state' = game_state
        \/ game_state = "player_select" /\ game_state' = "setup"
        \/ game_state = "setup" /\ game_state' = "playing"
        \/ game_state = "playing" /\ game_state' = "game_over"
        \/ /\ game_state = "game_over"
           /\ game_state' = "setup"
           /\ restarts' = restarts + 1 ]_vars

\* a first game played to its end, through every state
C3_Witness ==
    /\ game_state = "game_over"
    /\ restarts = 0
    /\ turns > 0

\* C4: in every reachable state of the Game, the winner is set if and only if
\* the state is 'game_over'.
C4_WinnerIffGameOver == (winner # None) <=> (game_state = "game_over")

\* the second game is being played, and the winner of the first is gone
C4_Witness ==
    /\ restarts = 1
    /\ game_state = "playing"
    /\ winner = None

\* Workers placed on the present board so far
NumPlaced ==
    IF game_state = "player_select"
    THEN 0
    ELSE IF game_state = "setup"
    THEN current_player_index * NUM_WORKERS + num_placed_workers
    ELSE Len(players) * NUM_WORKERS

\* C5: after any sequence of placements, moves and builds, each board position
\* holds at most one worker, each placed worker is recorded under exactly one
\* position, and that worker's cached position is the position of the cell
\* holding it.
C5_WorkersMatchCells ==
    /\ \A p \in ExtPos \ Pos : board_worker[p] = EmptyWorker
    /\ \A p \in Pos :
          board_worker[p] # EmptyWorker => workers[board_worker[p]].position = p
    /\ \A p, q \in Pos :
          (board_worker[p] # EmptyWorker /\ board_worker[p] = board_worker[q]) => p = q
    /\ Cardinality(Occupied(board_worker)) = NumPlaced

\* a worker has moved and a level has been built
C5_Witness ==
    /\ game_state = "playing"
    /\ turns > 0
    /\ \E p \in Pos : board_height[p] > 0
    /\ \E p \in Pos : board_worker[p] # EmptyWorker /\ p \notin SeqToSet(SetupOrder)

\* The step is a placement made in 'setup': only _setup_board changes the
\* cells' workers while the board is set up.
IsPlacementStep == game_state = "setup" /\ board_worker' # board_worker

\* C13: during 'setup' the players place in player order, each placing
\* NUM_WORKERS workers in a row before the next player places; after the last
\* player's last placement the state becomes 'playing' with current-player
\* index 0, every player owns exactly NUM_WORKERS workers with ids
\* 0 .. NUM_WORKERS - 1, and every worker's valid-move cache is populated.
C13_SetupOrder ==
    [][ /\ IsPlacementStep
          => LET w == Len(workers')
             IN /\ Len(workers') = Len(workers) + 1
                /\ workers'[w].player = current_player_index + 1
                /\ workers'[w].worker_id = num_placed_workers
                /\ players'[current_player_index + 1]
                     = Append(players[current_player_index + 1], w)
                /\ IF num_placed_workers + 1 < NUM_WORKERS
                   THEN /\ game_state' = "setup"
                        /\ current_player_index' = current_player_index
                   ELSE IF current_player_index + 1 < Len(players)
                   THEN /\ game_state' = "setup"
                        /\ current_player_index' = current_player_index + 1
                   ELSE game_state' = "playing"
        /\ (game_state = "setup" /\ game_state' = "playing")
          => /\ current_player_index' = 0
             /\ Cardinality(Occupied(board_worker')) = Len(players) * NUM_WORKERS
             /\ \A i \in DOMAIN players' :
                   /\ Len(players'[i]) = NUM_WORKERS
                   /\ { workers'[w].worker_id : w \in SeqToSet(players'[i]) }
                        = 0 .. (NUM_WORKERS - 1)
             /\ \A p \in Pos :
                   board_worker'[p] # EmptyWorker
                     => workers'[board_worker'[p]].valid_moves
                          = { t \in Pos : can_move(board_worker', board_height',
                                                   workers', p, t) } ]_vars

\* the first setup of a three-player game is complete
C13_Witness ==
    /\ game_state = "playing"
    /\ restarts = 0
    /\ turns = 0
    /\ Len(players) = 3
    /\ current_player_index = 0
    /\ \A i \in DOMAIN players : Len(players[i]) = NUM_WORKERS

\* C14: in 'setup', a placement on an occupied or off-board cell is rejected
\* and changes nothing: the board, the current-player index, the placed-worker
\* counter, every player's worker list and the game state are the same as
\* before. A step of the setup screen either fills one free cell of the board
\* and touches no other cell, or leaves all of these as they were.
C14_BadPlacementRejected ==
    [][ game_state = "setup"
          => \/ /\ board_worker' = board_worker
                /\ board_height' = board_height
                /\ current_player_index' = current_player_index
                /\ num_placed_workers' = num_placed_workers
                /\ players' = players
                /\ game_state' = game_state
             \/ \E p \in Pos :
                   /\ board_worker[p] = EmptyWorker
                   /\ board_worker'[p] # EmptyWorker
                   /\ \A q \in ExtPos \ { p } : board_worker'[q] = board_worker[q] ]_vars

\* a click on an occupied cell during setup: the worker standing there got
\* selected, and nothing was placed
C14_Witness ==
    /\ game_state = "setup"
    /\ selected_worker # None
    /\ workers[selected_worker].position \in Occupied(board_worker)
    /\ Cardinality(Occupied(board_worker))
         = current_player_index * NUM_WORKERS + num_placed_workers

\* C15: in 'player_select' the only accepted player counts are 2 and 3: an
\* accepted count N creates exactly N players with ids 1 .. N and moves to
\* 'setup'; any other value creates no players and leaves the state
\* 'player_select', so the Game never is past 'player_select' with fewer than
\* 2 or more than 3 players.
C15_TwoOrThreePlayers ==
    IF game_state = "player_select"
    THEN players = << >>
    ELSE DOMAIN players \in { 1 .. 2, 1 .. 3 }

\* a count of three was accepted: three players, nothing placed yet
C15_Witness ==
    /\ game_state = "setup"
    /\ DOMAIN players = 1 .. 3
    /\ workers = << >>

\* The step is a build made in 'playing': only _build_action changes a height
\* while the game is played.
IsBuildStep == game_state = "playing" /\ board_height' # board_height

\* C16: in 'playing', after a legal action whose move is not a winning move
\* and whose build is applied, the current-player index becomes
\* (index + 1) mod N; if that next player has at least one legal action the
\* state stays 'playing' and it is that player's turn.
C16_TurnPasses ==
    [][ IsBuildStep
          => /\ current_player_index'
                  = (current_player_index + 1) % Len(players)
             /\ ~Stranded(board_worker', board_height', workers',
                          current_player_index' + 1)
                  => /\ game_state' = "playing"
                     /\ player_action_sate' = "start_turn"
                     /\ winner' = None ]_vars

\* the second of three players is to move after the first one's build
C16_Witness ==
    /\ game_state = "playing"
    /\ Len(players) = 3
    /\ current_player_index = 1
    /\ player_action_sate = "start_turn"
    /\ \E p \in Pos : board_height[p] > 0
    /\ ~Stranded(board_worker, board_height, workers, current_player_index + 1)

\* Every worker listed under a player stands on the board, on its own cell
ListedOnBoard(bw, ws, ps) ==
    \A w \in ListedWorkers(ps) :
        /\ ws[w].position \in Pos
        /\ bw[ws[w].position] = w

\* C19: after a reset (the restart taken from game_over included) the board is
\* empty with all heights 0, the current-player index is 0, the winner is
\* absent and no player or worker of the previous game remains: every worker
\* listed under a player after the next setup stands on the new board.
C19_ResetLeavesNothing ==
    [][ /\ restarts' = restarts + 1
           => /\ board_worker' = EmptyBoardWorker
              /\ board_height' = EmptyBoardHeight
              /\ current_player_index' = 0
              /\ winner' = None
              /\ ListedWorkers(players') = {}
        /\ ( restarts' > 0 /\ game_state' = "playing" )
           => ListedOnBoard(board_worker', workers', players') ]_vars

\* The game after a restart reached playing with a worker of the previous game
\* still listed under a player
C19_Witness ==
    /\ restarts > 0
    /\ game_state = "playing"
    /\ board_height = EmptyBoardHeight
    /\ winner = None
    /\ current_player_index = 0
    /\ ~ListedOnBoard(board_worker, workers, players)

\* The cache of the worker standing on position is what can_move allows now
FreshMoves(position) ==
    workers[board_worker[position]].valid_moves =
        { n \in Neighbours(position) :
            can_move(board_worker, board_height, workers, position, n) }

\* C33: after every change of the board (a placement, a move or a build) the
\* cached valid-move set of every worker standing on the board is the set of
\* its neighbours that can_move allows on the board as it now is.
C33_CachedMovesAreCurrent ==
    \A p \in Pos : board_worker[p] # EmptyWorker => FreshMoves(p)

\* A third player's placement next to a worker placed before: the setup goes
\* on, and the earlier worker's cache still holds the cell just taken.
C33_Witness ==
    /\ game_state = "setup"
    /\ restarts = 0
    /\ \E p \in Pos :
         /\ board_worker[p] # EmptyWorker
         /\ \E n \in workers[board_worker[p]].valid_moves :
              board_worker[n] # EmptyWorker

\* C33 after a move: the mover has left a cell a neighbour's cache still
\* lacks, before any build has refreshed the caches.
C33_StaleAfterMove ==
    ~ ( /\ game_state = "playing"
        /\ player_action_sate = "build"
        /\ restarts = 0
        /\ \E p \in Pos : board_worker[p] # EmptyWorker /\ ~FreshMoves(p) )

\* C35: whenever the Game is in 'playing' and waits for a move (the start of a
\* turn, the first turn after the setup and the turns after a restart
\* included), the cached valid-move set of every worker standing on the board
\* is the set of its neighbours that can_move allows on the current board; so
\* a move the Game accepts from the cache is a move can_move allows.
C35_FreshCacheAtMove ==
    /\ [] ( ( /\ game_state = "playing"
              /\ player_action_sate \in { "start_turn", "move" } )
            => \A p \in Pos : board_worker[p] # EmptyWorker => FreshMoves(p) )
    /\ [][ IsMoveStep
             => can_move(board_worker, board_height, workers,
                         workers[moved_worker'].position,
                         workers'[moved_worker'].position) ]_vars

\* The second turn of the game after a restart waits for its move: a cell has
\* been raised and a worker with another worker beside it cannot go everywhere.
C35_Witness ==
    /\ game_state = "playing"
    /\ player_action_sate \in { "start_turn", "move" }
    /\ restarts > 0
    /\ board_height # EmptyBoardHeight
    /\ \E p \in Pos :
         /\ board_worker[p] # EmptyWorker
         /\ \E n \in Neighbours(p) \cap Pos : board_worker[n] # EmptyWorker
         /\ workers[board_worker[p]].valid_moves # Neighbours(p) \cap Pos

\* ---------------- SpecCrowded: the same Game, the workers placed side by side
\* The cells the placements of SpecCrowded are clicked in: the first player
\* takes a corner and the cell next to it, the other players the cells around
CrowdedOrder == << <<0, 0>>, <<0, 1>>, <<1, 0>>, <<1, 1>>, <<0, 2>>, <<1, 2>> >>

\* Clicks of the setup screen: the next cell of CrowdedOrder, or an occupied cell
CrowdedClicks ==
    { p \in Pos :
        \/ p \in Occupied(board_worker)
        \/ /\ Cardinality(Occupied(board_worker)) < Len(CrowdedOrder)
           /\ p = CrowdedOrder[Cardinality(Occupied(board_worker)) + 1] }

NextCrowded ==
    \/ \E x_position \in ClickXs : PlayerSelectClick(x_position) /\ UNCHANGED auxVars
    \/ \E position \in CrowdedClicks : SetupClick(position) /\ UNCHANGED auxVars
    \/ \E position \in Pos : PlayingClick(position) /\ UNCHANGED auxVars
    \/ GameOverClick /\ UNCHANGED auxVars

SpecCrowded == Init /\ [][NextCrowded]_vars

\* C27: whenever a player is asked to act (the game is in setup or in
\* playing), the player has a legal action: a free cell to place on in setup,
\* a worker with a legal move at the start of a turn; a player with none never
\* gets the turn, the first turn after setup included, for 2 and for 3 players.
C27_MoverHasLegalAction ==
    /\ game_state = "setup"
       => \E p \in Pos : can_place(board_worker, workers, p)
    /\ ( game_state = "playing" /\ player_action_sate = "start_turn"
          /\ Len(players) \in { 2, 3 } )
       => ~Stranded(board_worker, board_height, workers, current_player_index + 1)

\* The first turn of a three-player game: the first player is to move and
\* none of its workers can
C27_Witness ==
    /\ game_state = "playing"
    /\ player_action_sate = "start_turn"
    /\ Len(players) = 3
    /\ restarts = 0
    /\ turns = 0
    /\ current_player_index = 0
    /\ board_height = EmptyBoardHeight
    /\ Stranded(board_worker, board_height, workers, 1)

\* ------- SpecLive: the crowded Game, every click in 'playing' a legal action
\* The current player has selected one of its workers that has a valid move
MoverSelected ==
    /\ selected_worker # None
    /\ workers[selected_worker].player = current_player_index + 1
    /\ workers[selected_worker].valid_moves # {}

\* The clicks of a sequence of legal actions: on a worker of the current player
\* that has a valid move, when no such worker is selected; then on a cell the
\* selected worker moves to; then on a cell the moved worker builds on
SelectMover(position) ==
    /\ game_state = "playing"
    /\ player_action_sate \in { "start_turn", "move" }
    /\ ~MoverSelected
    /\ board_worker[position] # EmptyWorker
    /\ workers[board_worker[position]].player = current_player_index + 1
    /\ workers[board_worker[position]].valid_moves # {}
    /\ PlayingClick(position)
    /\ MoverSelected'

LegalMove(position) ==
    /\ game_state = "playing"
    /\ player_action_sate \in { "start_turn", "move" }
    /\ MoverSelected
    /\ position \in workers[selected_worker].valid_moves
    /\ PlayingClick(position)
    /\ board_worker' # board_worker

LegalBuild(position) ==
    /\ game_state = "playing"
    /\ player_action_sate = "build"
    /\ position \in workers[moved_worker].valid_builds
    /\ PlayingClick(position)
    /\ board_height' # board_height

NextLive ==
    \/ \E x_position \in ClickXs : PlayerSelectClick(x_position) /\ UNCHANGED auxVars
    \/ \E position \in CrowdedClicks : SetupClick(position) /\ UNCHANGED auxVars
    \/ \E position \in Pos : SelectMover(position) /\ UNCHANGED auxVars
    \/ \E position \in Pos : LegalMove(position) /\ UNCHANGED auxVars
    \/ \E position \in Pos : LegalBuild(position) /\ UNCHANGED auxVars

\* The players go on: a click of NextLive is made whenever one is possible
SpecLive == Init /\ [][NextLive]_vars /\ WF_vars(NextLive)

\* The levels of a cell: its height, a capped cell one more than the maximum
RECURSIVE TotalLevels(_)
TotalLevels(cells) ==
    IF cells = {}
    THEN 0
    ELSE LET p == CHOOSE q \in cells : TRUE
         IN ( IF board_height[p] = Inf THEN max_building_height + 1
              ELSE board_height[p] )
            + TotalLevels(cells \ { p })

\* The same total in the next state
RECURSIVE TotalLevelsNext(_)
TotalLevelsNext(cells) ==
    IF cells = {}
    THEN 0
    ELSE LET p == CHOOSE q \in cells : TRUE
         IN ( IF board_height'[p] = Inf THEN max_building_height + 1
              ELSE board_height'[p] )
            + TotalLevelsNext(cells \ { p })

\* C37: every game terminates: from the start of 'playing', any sequence of
\* legal actions reaches 'game_over' after finitely many turns, because each
\* completed turn that does not win raises exactly one cell by one level and
\* the total of the levels is bounded by grid_size^2 x (max_building_height + 1).
\* Within the turns followed: a game that is being played ends or completes
\* another turn.
C37_EveryGameEnds ==
    /\ [] ( TotalLevels(Pos) <= GridSize * GridSize * (max_building_height + 1) )
    /\ [][ turns' = turns + 1 => TotalLevelsNext(Pos) = TotalLevels(Pos) + 1 ]_vars
    /\ \A n \in 0 .. (MaxTurns - 1) :
         ( game_state = "playing" /\ turns = n )
            ~> ( game_state = "game_over" \/ turns > n )

\* The first turn of a three-player game waits for its move and no worker of
\* the first player has a valid move: no legal action is left and the game is
\* not over
C37_Witness ==
    /\ game_state = "playing"
    /\ player_action_sate = "start_turn"
    /\ Len(players) = 3
    /\ restarts = 0
    /\ turns = 0
    /\ winner = None
    /\ \A w \in SeqToSet(players[current_player_index + 1]) :
         workers[w].valid_moves = {}

\* ------------------------------- SpecStep: one Game driven by step(action)
\* Game.step, Game.reset, Game.valid_actions and Board.get_valid_worker_actions
\* are called by src/cli.py and src/santorini/env.py and are not in src/: they
\* follow the unified contract of the specification (section 4.5 and 4.4).

\* utils.space_index_to_position, on the grid of the model
space_index_to_position(space_index) ==
    << space_index \div GridSize, space_index % GridSize >>

\* Board.get_valid_placement_actions: the index of every free cell of the board
get_valid_placement_actions(bw, ws) ==
    { space_position_to_index(p) : p \in { q \in Pos : can_place(bw, ws, q) } }

\* Board.get_valid_worker_actions, one action: a move target the worker can
\* move to, then any cell of the board when the move wins, else a neighbour of
\* the target that is on the board, not capped and holds no worker but the mover
is_valid_worker_action(bw, bh, ws, mbh, w, action) ==
    /\ action[1] = ws[w].position
    /\ is_adjacent(action[1], action[2])
    /\ can_move(bw, bh, ws, action[1], action[2])
    /\ is_on_board(action[3])
    /\ \/ get_position_height(bh, action[2]) = mbh
       \/ /\ is_adjacent(action[2], action[3])
          /\ get_position_height(bh, action[3]) # Inf
          /\ get_position_worker(bw, action[3]) \in { EmptyWorker, w }

get_valid_worker_actions(bw, bh, ws, mbh, w) ==
    { action \in { ws[w].position } \X Pos \X Pos :
        is_valid_worker_action(bw, bh, ws, mbh, w, action) }

\* Game.valid_actions: the actions of the workers of the player whose turn it is
valid_actions(bw, bh, ws, mbh, ps, index) ==
    IF index + 1 \in DOMAIN ps
    THEN UNION { get_valid_worker_actions(bw, bh, ws, mbh, w) :
                    w \in SeqToSet(ps[index + 1]) }
    ELSE {}

\* action in Game.valid_actions
is_valid_action(bw, bh, ws, mbh, ps, index, action) ==
    /\ index + 1 \in DOMAIN ps
    /\ \E w \in SeqToSet(ps[index + 1]) :
           is_valid_worker_action(bw, bh, ws, mbh, w, action)

\* Game.valid_actions is empty
has_no_valid_action(bw, bh, ws, mbh, ps, index) ==
    \A action \in Pos \X Pos \X Pos :
        ~is_valid_action(bw, bh, ws, mbh, ps, index, action)

\* The record of a step: the action, whether it was accepted, the error raised
StepDone(action, accepted, error) ==
    [ NoOp EXCEPT !.op = "step", !.a = action, !.legal = accepted, !.error = error ]

\* The indices step is given in SETUP: the next cell of SetupOrder, the cells
\* already taken, and the two indices next to the range of the board
SetupIndices ==
    { space_position_to_index(p) : p \in SetupClicks \cap Pos }
        \cup { -1, GridSize * GridSize }

\* The actions step is given in PLAYING and in GAME_OVER: a worker's cell, a
\* cell to move to and a cell to build on
StepActions ==
    { action \in Pos \X Pos \X Pos :
        /\ board_worker[action[1]] # EmptyWorker
        /\ action[2] \in Neighbours(action[1])
        /\ action[3] \in Neighbours(action[2]) }

\* Game() of the step-driven design: PLAYER_SELECT, an empty board, no players
InitStep ==
    /\ board_worker = EmptyBoardWorker
    /\ board_height = EmptyBoardHeight
    /\ board_game_over = FALSE
    /\ max_building_height = GameMaxHeight
    /\ selected_position = NoPos
    /\ selected_worker = None
    /\ workers = << >>
    /\ GameConstructed
    /\ last = NoOp
    /\ nops = 0
    /\ turns = 0
    /\ restarts = 0
    /\ env = NoEnv
    /\ turn_start = NoTurn
    /\ renderer = NoRenderer

\* step in PLAYER_SELECT: the action is a player count, 2 or 3
StepPlayerSelect(action) ==
    /\ game_state = "player_select"
    /\ IF action \in { 2, 3 }
       THEN /\ players' = init_players(action)
            /\ game_state' = "setup"
            /\ last' = StepDone(action, TRUE, "none")
       ELSE /\ last' = StepDone(action, FALSE, "InvalidInput")
            /\ UNCHANGED << players, game_state >>
    /\ UNCHANGED << boardVars, current_player_index, num_placed_workers,
                    moved_worker, player_action_sate, winner, nops, turns,
                    restarts >>

\* step in SETUP: the action is the index of a free cell
StepSetup(action) ==
    /\ game_state = "setup"
    /\ IF action \in get_valid_placement_actions(board_worker, workers)
       THEN LET w  == Len(workers) + 1
                ws0 == Append(workers,
                          NewWorker(current_player_index + 1, num_placed_workers))
                placed == place(board_worker, board_height, ws0,
                                space_index_to_position(action), w)
                ps1 == [ players EXCEPT ![current_player_index + 1] = Append(@, w) ]
            IN /\ board_worker' = placed.bw
               /\ players' = ps1
               /\ last' = StepDone(action, TRUE, "none")
               /\ IF num_placed_workers + 1 < NUM_WORKERS
                  THEN /\ workers' = placed.ws
                       /\ num_placed_workers' = num_placed_workers + 1
                       /\ UNCHANGED << game_state, current_player_index >>
                  ELSE IF current_player_index + 1 < Len(players)
                  THEN /\ workers' = placed.ws
                       /\ num_placed_workers' = 0
                       /\ current_player_index' = current_player_index + 1
                       /\ UNCHANGED game_state
                  ELSE /\ workers' = update_all_valid_move_actions(
                                         placed.bw, board_height, placed.ws, ps1)
                       /\ num_placed_workers' = 0
                       /\ current_player_index' = 0
                       /\ game_state' = "playing"
       ELSE /\ last' = StepDone(action, FALSE, "InvalidInput")
            /\ UNCHANGED << board_worker, players, workers, game_state,
                            current_player_index, num_placed_workers >>
    /\ UNCHANGED << board_height, board_game_over, max_building_height,
                    selected_position, selected_worker, moved_worker,
                    player_action_sate, winner, nops, turns, restarts >>

\* What step does in PLAYING, as a function of the Game it is called on: the
\* action is one of the current player's valid actions; the move, then the end
\* of the game on a winning move, else the build, the next player, and the end
\* of the game when that player has no valid action
step_playing(bw, bh, ws, mbh, go, ps, index, win, action) ==
    IF ~is_valid_action(bw, bh, ws, mbh, ps, index, action)
    THEN [ accepted |-> FALSE, bw |-> bw, bh |-> bh, ws |-> ws, go |-> go,
           index |-> index, state |-> "playing", winner |-> win ]
    ELSE LET mv == move_worker(bw, bh, ws, mbh, go, action[1], action[2])
         IN IF mv.go
            THEN [ accepted |-> TRUE, bw |-> mv.bw, bh |-> bh, ws |-> mv.ws,
                   go |-> TRUE, index |-> index, state |-> "game_over",
                   winner |-> index + 1 ]
            ELSE LET b == build(mv.bw, bh, mv.ws, mbh, action[2], action[3])
                     ws1 == update_all_valid_move_actions(mv.bw, b.bh, mv.ws, ps)
                     next_index == (index + 1) % Len(ps)
                     stranded == has_no_valid_action(mv.bw, b.bh, ws1, mbh, ps,
                                                     next_index)
                 IN [ accepted |-> TRUE, bw |-> mv.bw, bh |-> b.bh, ws |-> ws1,
                      go |-> stranded, index |-> next_index,
                      state |-> IF stranded THEN "game_over" ELSE "playing",
                      winner |-> IF stranded THEN index + 1 ELSE win ]

\* Faulty variant of StepPlaying: the move is validated and made before the
\* build is looked at.
StepPlaying_MoveFirst(action) ==
    /\ game_state = "playing"
    /\ turns < MaxTurns
    /\ LET mover == get_position_worker(board_worker, action[1])
           mv == move_worker(board_worker, board_height, workers,
                             max_building_height, board_game_over,
                             action[1], action[2])
       IN IF /\ mover \in SeqToSet(players[current_player_index + 1])
             /\ can_move(board_worker, board_height, workers, action[1], action[2])
          THEN /\ board_worker' = mv.bw
               /\ workers' = mv.ws
               /\ last' = StepDone(action, FALSE, "InvalidInput")
          ELSE /\ last' = StepDone(action, FALSE, "InvalidInput")
               /\ UNCHANGED << board_worker, workers >>
    /\ UNCHANGED << board_height, board_game_over, game_state, winner,
                    current_player_index, turns, max_building_height,
                    selected_position, selected_worker, players,
                    num_placed_workers, moved_worker, player_action_sate, nops,
                    restarts >>

\* step in PLAYING
StepPlaying(action) ==
    /\ game_state = "playing"
    /\ turns < MaxTurns
    /\ \E r \in { step_playing(board_worker, board_height, workers,
                               max_building_height, board_game_over, players,
                               current_player_index, winner, action) } :
          /\ board_worker' = r.bw
          /\ board_height' = r.bh
          /\ workers' = r.ws
          /\ board_game_over' = r.go
          /\ current_player_index' = r.index
          /\ game_state' = r.state
          /\ winner' = r.winner
          /\ turns' = IF r.accepted THEN turns + 1 ELSE turns
          /\ last' = StepDone(action, r.accepted,
                              IF r.accepted THEN "none" ELSE "InvalidInput")
    /\ UNCHANGED << max_building_height, selected_position, selected_worker,
                    players, num_placed_workers, moved_worker,
                    player_action_sate, nops, restarts >>

\* Faulty variant of StepGameOver: the step starts the next game, as a click of
\* the click-driven Game does.
StepGameOver_Restart(action) ==
    /\ game_state = "game_over"
    /\ board_worker' = EmptyBoardWorker
    /\ board_height' = EmptyBoardHeight
    /\ board_game_over' = FALSE
    /\ workers' = << >>
    /\ players' = << >>
    /\ current_player_index' = 0
    /\ num_placed_workers' = 0
    /\ winner' = None
    /\ game_state' = "player_select"
    /\ last' = StepDone(action, FALSE, "none")
    /\ UNCHANGED << max_building_height, selected_position, selected_worker,
                    moved_worker, player_action_sate, nops, turns, restarts >>

\* step in GAME_OVER: nothing is done
StepGameOver(action) ==
    /\ game_state = "game_over"
    /\ last' = StepDone(action, FALSE, "none")
    /\ UNCHANGED << boardVars, gameVars, nops, turns, restarts >>

\* Game.reset: a new Board, no players, index 0, no winner, PLAYER_SELECT
Reset ==
    /\ restarts < MaxRestarts
    /\ board_worker' = EmptyBoardWorker
    /\ board_height' = EmptyBoardHeight
    /\ board_game_over' = FALSE
    /\ workers' = << >>
    /\ players' = << >>
    /\ current_player_index' = 0
    /\ num_placed_workers' = 0
    /\ winner' = None
    /\ game_state' = "player_select"
    /\ last' = [ NoOp EXCEPT !.op = "reset" ]
    /\ restarts' = restarts + 1
    /\ UNCHANGED << max_building_height, selected_position, selected_worker,
                    moved_worker, player_action_sate, nops, turns >>

NextStep ==
    \/ \E action \in 1 .. 4 : StepPlayerSelect(action) /\ UNCHANGED auxVars
    \/ \E action \in SetupIndices : StepSetup(action) /\ UNCHANGED auxVars
    \/ \E action \in StepActions : StepPlaying(action) /\ UNCHANGED auxVars
    \/ \E action \in StepActions : StepGameOver(action) /\ UNCHANGED auxVars
    \/ Reset /\ UNCHANGED auxVars

SpecStep == InitStep /\ [][NextStep]_vars

\* ------------------------------------- properties of the step-driven Game

\* C17: in PLAYING, a step whose action is not one of the current player's
\* valid actions fails with InvalidInput and applies nothing: no worker moves,
\* no height changes, and the current player, the state and the winner stay as
\* they were (so a legal move with an illegal build leaves the move unmade).
C17_IllegalStepAppliesNothing ==
    [][ ( /\ game_state = "playing"
          /\ last'.op = "step"
          /\ ~is_valid_action(board_worker, board_height, workers,
                              max_building_height, players,
                              current_player_index, last'.a) )
        => ( /\ last'.error = "InvalidInput"
             /\ UNCHANGED << board_worker, board_height, workers,
                             current_player_index, game_state, winner >> ) ]_vars

\* A step was refused in PLAYING whose move alone the current player could make
C17_Witness ==
    /\ game_state = "playing"
    /\ last.op = "step"
    /\ last.error = "InvalidInput"
    /\ get_position_worker(board_worker, last.a[1])
           \in SeqToSet(players[current_player_index + 1])
    /\ can_move(board_worker, board_height, workers, last.a[1], last.a[2])
    /\ ~can_build(board_worker, board_height, workers, last.a[2], last.a[3])
    /\ last.a[3] # last.a[1]

TurnClick(position) ==
    /\ PlayingClick(position)
    /\ turn_start' =
          IF board_worker' # board_worker
          THEN [ taken |-> TRUE, bw |-> board_worker, bh |-> board_height,
                 ws |-> workers, go |-> board_game_over,
                 index |-> current_player_index, winner |-> winner,
                 from |-> workers[moved_worker'].position, to |-> position,
                 build |-> NoPos ]
          ELSE IF board_height' # board_height
          THEN [ turn_start EXCEPT !.build = position ]
          ELSE turn_start

\* A click in 'game_over': the remembered turn belongs to the finished game
TurnRestart ==
    /\ GameOverClick
    /\ turn_start' = NoTurn

NextTurn ==
    \/ \E x_position \in ClickXs : PlayerSelectClick(x_position) /\ UNCHANGED auxVars
    \/ \E position \in SetupClicks : SetupClick(position) /\ UNCHANGED auxVars
    \/ \E position \in Pos : TurnClick(position) /\ UNCHANGED << env, renderer >>
    \/ TurnRestart /\ UNCHANGED << env, renderer >>

SpecTurn == Init /\ [][NextTurn]_vars

\* The players of a step-driven Game on the board bw: each player's workers
\* that stand on the board
Standing(bw, ps) ==
    [ i \in DOMAIN ps |->
        SelectSeq(ps[i], LAMBDA w : \E p \in Pos : bw[p] = w) ]

\* step(action) on the Game a remembered turn started from
StepOfTurn(t, action) ==
    step_playing(t.bw, t.bh, t.ws, max_building_height, t.go,
                 Standing(t.bw, players), t.index, t.winner, action)

\* step(action) on the Game as it is
StepNow(action) ==
    step_playing(board_worker, board_height, workers, max_building_height,
                 board_game_over, Standing(board_worker, players),
                 current_player_index, winner, action)

\* The click ends where the step r ends: board, current player, state, winner
SameOutcome(r) ==
    /\ r.accepted
    /\ r.bw = board_worker'
    /\ r.bh = board_height'
    /\ r.index = current_player_index'
    /\ r.state = game_state'
    /\ r.winner = winner'

\* C30: the click-driven game and step obey the same rules. From the same
\* board and current player, a turn of clicks (own worker, move target, build
\* target) is accepted exactly when step accepts (from, to, build): a move the
\* clicks make is the move of a valid action, a winning move ends as step of
\* that move ends, a build the clicks make ends as step of (from, to, build)
\* ends (same board, current player, state and winner), and a move target or
\* a build target the clicks refuse belongs to no valid action.
C30_GuiTurnIsStep ==
    [][ game_state = "playing" =>
          /\ board_worker' # board_worker =>
                LET from == workers[moved_worker'].position
                    to == selected_position'
                IN IF game_state' = "game_over"
                   THEN \A b \in Pos : SameOutcome(StepNow(<< from, to, b >>))
                   ELSE \E b \in Pos : StepNow(<< from, to, b >>).accepted
          /\ board_height' # board_height =>
                /\ turn_start.taken
                /\ SameOutcome(StepOfTurn(turn_start,
                       << turn_start.from, turn_start.to, turn_start'.build >>))
          /\ ( /\ player_action_sate \in { "start_turn", "move" }
               /\ board_worker' = board_worker
               /\ selected_worker' # None
               /\ workers[selected_worker'].player = current_player_index + 1 )
             => \A b \in Pos :
                   ~StepNow(<< workers[selected_worker'].position,
                               selected_position', b >>).accepted
          /\ ( /\ player_action_sate = "build"
               /\ board_height' = board_height
               /\ turn_start.taken )
             => ~StepOfTurn(turn_start,
                    << turn_start.from, turn_start.to, selected_position' >>).accepted
      ]_vars

\* A turn of clicks was completed in the game after a restart and the game
\* goes on, where step of the same action from the same board ends the game
C30_Witness ==
    /\ restarts = 1
    /\ game_state = "playing"
    /\ player_action_sate = "start_turn"
    /\ turn_start.taken
    /\ turn_start.build # NoPos
    /\ LET r == StepOfTurn(turn_start,
                    << turn_start.from, turn_start.to, turn_start.build >>)
       IN /\ r.accepted
          /\ r.bw = board_worker
          /\ r.bh = board_height
          /\ r.index = current_player_index
          /\ r.state = "game_over"

\* A worker has moved in the present turn and its build is still to come
InsideTurn == turn_start.taken /\ turn_start.build = NoPos

\* The step moves exactly one worker from one cell to another
OneWorkerMoves(from, to) ==
    /\ from # to
    /\ board_worker[from] # EmptyWorker
    /\ board_worker'[to] = board_worker[from]
    /\ board_worker'[from] = EmptyWorker
    /\ \A p \in ExtPos \ { from, to } : board_worker'[p] = board_worker[p]

\* C31: in 'playing' every turn has the shape: exactly one move of a worker
\* owned by the current player, then (unless the move won) exactly one build
\* on a cell adjacent to that same worker's new position, then the turn
\* passes; no second move, no build before the move, no build by another
\* worker and no action of another player happens inside the turn.
C31_TurnShape ==
    [][ game_state = "playing" =>
          /\ board_worker' # board_worker =>
               /\ ~InsideTurn
               /\ \E from, to \in Pos :
                    /\ OneWorkerMoves(from, to)
                    /\ workers[board_worker[from]].player = current_player_index + 1
               /\ board_height' = board_height
               /\ current_player_index' = current_player_index
               /\ game_state' = "game_over" \/ InsideTurn'
          /\ board_height' # board_height =>
               /\ InsideTurn
               /\ turn_start.index = current_player_index
               /\ board_worker' = board_worker
               /\ workers[board_worker[turn_start.to]].player = current_player_index + 1
               /\ \E c \in Pos :
                    /\ Chebyshev(c, turn_start.to) = 1
                    /\ board_height'[c] # board_height[c]
                    /\ \A p \in ExtPos \ { c } : board_height'[p] = board_height[p]
               /\ current_player_index' = (current_player_index + 1) % Len(players)
               /\ ~InsideTurn'
          /\ current_player_index' # current_player_index =>
               board_height' # board_height
          /\ ( InsideTurn /\ board_height' = board_height ) =>
               ( InsideTurn' /\ board_worker' = board_worker )
      ]_vars

\* The second turn of a game is complete: the other player's worker has moved
\* and built beside its new cell, and the turn has passed on
C31_Witness ==
    /\ game_state = "playing"
    /\ player_action_sate = "start_turn"
    /\ turns = 2
    /\ turn_start.taken
    /\ turn_start.index = 1
    /\ turn_start.build # NoPos
    /\ Chebyshev(turn_start.build, turn_start.to) = 1
    /\ board_height[turn_start.build] > 0
    /\ board_worker[turn_start.to] # EmptyWorker
    /\ workers[board_worker[turn_start.to]].player = 2

\* The valid builds _move_action computes for the worker on from once it has
\* moved to the cell to
BuildsAfterMove(from, to) ==
    LET w == board_worker[from]
        mv == move_worker(board_worker, board_height, workers,
                          max_building_height, board_game_over, from, to)
    IN update_worker_valid_builds(mv.bw, board_height, mv.ws, w)[w].valid_builds

\* The board after the worker on from has gone to the cell to
BoardAfterMove(from, to) ==
    [ board_worker EXCEPT ![from] = EmptyWorker, ![to] = board_worker[from] ]

\* C32: for a move that does not win, (from, to, build) is in the worker's
\* legal-action set if and only if can_move(from, to) holds on the current
\* board and can_build(to, build) on the board after the move; the cell the
\* mover has left is a legal build target, and a cell off the board, the cell
\* moved to, a capped cell and a cell held by another worker are not.
\* The Game accepts (from, to, build) when to is in the cached valid moves of
\* the worker on from and build is in the valid builds computed after the move.
C32_LegalTurnIffMoveThenBuild ==
    /\ [] ( ( /\ game_state = "playing"
              /\ player_action_sate \in { "start_turn", "move" } )
            => \A from \in Pos :
                 board_worker[from] # EmptyWorker =>
                   \A to \in ExtPos :
                     /\ to \in workers[board_worker[from]].valid_moves
                          <=> can_move(board_worker, board_height, workers, from, to)
                     /\ ( /\ can_move(board_worker, board_height, workers, from, to)
                          /\ board_height[to] # max_building_height )
                          => \E builds \in { BuildsAfterMove(from, to) } :
                               /\ \A b \in ExtPos :
                                    b \in builds
                                      <=> can_build(BoardAfterMove(from, to),
                                                    board_height, workers, to, b)
                               /\ from \in builds
                               /\ \A b \in builds :
                                    /\ b \in Pos
                                    /\ b # to
                                    /\ board_height[b] # Inf
                                    /\ ( board_worker[b] = EmptyWorker
                                         \/ b = from ) )
    /\ [][ ( game_state = "playing" /\ board_height' # board_height ) =>
             /\ can_move(turn_start.bw, turn_start.bh, turn_start.ws,
                         turn_start.from, turn_start.to)
             /\ board_worker = [ turn_start.bw EXCEPT
                                   ![turn_start.from] = EmptyWorker,
                                   ![turn_start.to] =
                                       turn_start.bw[turn_start.from] ]
             /\ can_build(board_worker, board_height, workers,
                          turn_start.to, turn_start'.build)
             /\ board_height'[turn_start'.build] # board_height[turn_start'.build]
       ]_vars

\* A turn is complete whose build was made on the cell the mover had left
C32_Witness ==
    /\ game_state = "playing"
    /\ turn_start.taken
    /\ turn_start.build # NoPos
    /\ turn_start.build = turn_start.from
    /\ board_height[turn_start.from] > turn_start.bh[turn_start.from]
    /\ board_worker[turn_start.to] = turn_start.bw[turn_start.from]

\* ------------------------- SpecCodec: the action codec of utils.py
\* compass direction vectors, N first, clockwise (dirs[0] is Dirs[1])
Dirs == << << 0, -1 >>, << 1, -1 >>, << 1, 0 >>, << 1, 1 >>,
           << 0, 1 >>, << -1, 1 >>, << -1, 0 >>, << -1, -1 >> >>

\* dirs.index(d): the position of d in dirs, or -1 where list.index raises
DirIndex(d) ==
    IF \E i \in 1 .. Len(Dirs) : Dirs[i] = d
    THEN (CHOOSE i \in 1 .. Len(Dirs) : Dirs[i] = d) - 1
    ELSE -1

\* utils.decode_action: the from cell is split with the literal 5
decode_action(action, grid_size) ==
    IF ~(0 <= action /\ action < grid_size * grid_size * 8 * 8)
    THEN [ error |-> "ValueError", value |-> << >> ]
    ELSE LET from_idx == action \div (8 * 8)
             rem == action % (8 * 8)
             move_dir == rem \div 8
             build_dir == rem % 8
             from_x == from_idx % 5
             from_y == from_idx \div 5
             to_x == from_x + Dirs[move_dir + 1][1]
             to_y == from_y + Dirs[move_dir + 1][2]
             build_x == to_x + Dirs[build_dir + 1][1]
             build_y == to_y + Dirs[build_dir + 1][2]
         IN [ error |-> "none",
              value |-> << << from_x, from_y >>, << to_x, to_y >>,
                           << build_x, build_y >> >> ]

\* Faulty variant of encode_action: the from cell is linearised row first.
encode_action_RowFirst(move_build_tuple, grid_size) ==
    LET from_x == move_build_tuple[1][1]
        from_y == move_build_tuple[1][2]
        to_x == move_build_tuple[2][1]
        to_y == move_build_tuple[2][2]
        build_x == move_build_tuple[3][1]
        build_y == move_build_tuple[3][2]
        move_dir == DirIndex(<< to_x - from_x, to_y - from_y >>)
        build_dir == DirIndex(<< build_x - to_x, build_y - to_y >>)
    IN IF \E index \in { from_x, from_y, to_x, to_y, build_x, build_y } :
              ~(0 <= index /\ index < grid_size)
       THEN [ error |-> "ValueError", value |-> -1 ]
       ELSE IF move_dir = -1 \/ build_dir = -1
       THEN [ error |-> "ValueError", value |-> -1 ]
       ELSE [ error |-> "none",
              value |-> (from_x * grid_size + from_y) * (8 * 8)
                            + move_dir * 8 + build_dir ]

\* utils.encode_action: all six coordinates are range-checked first
encode_action(move_build_tuple, grid_size) ==
    LET from_x == move_build_tuple[1][1]
        from_y == move_build_tuple[1][2]
        to_x == move_build_tuple[2][1]
        to_y == move_build_tuple[2][2]
        build_x == move_build_tuple[3][1]
        build_y == move_build_tuple[3][2]
        move_dir == DirIndex(<< to_x - from_x, to_y - from_y >>)
        build_dir == DirIndex(<< build_x - to_x, build_y - to_y >>)
    IN IF \E index \in { from_x, from_y, to_x, to_y, build_x, build_y } :
              ~(0 <= index /\ index < grid_size)
       THEN [ error |-> "ValueError", value |-> -1 ]
       ELSE IF move_dir = -1 \/ build_dir = -1
       THEN [ error |-> "ValueError", value |-> -1 ]
       ELSE [ error |-> "none",
              value |-> (from_x + from_y * grid_size) * (8 * 8)
                            + move_dir * 8 + build_dir ]

\* Faulty variant of decode_space: the column comes first.
decode_space_ColFirst(space_index, grid_size) ==
    << space_index % grid_size, space_index \div grid_size >>

\* utils.space_index_to_position with its grid_size argument, which the tests
\* and the renderer call decode_space
decode_space(space_index, grid_size) ==
    LET space_row == space_index \div grid_size
        space_col == space_index % grid_size
    IN << space_row, space_col >>

\* utils.space_position_to_index with its grid_size argument, which the tests
\* and the renderer call encode_space
encode_space(space_position, grid_size) ==
    LET space_row == space_position[1]
        space_col == space_position[2]
    IN space_row * grid_size + space_col

\* range(grid_size ** 2)
SpaceIndexValues == 0 .. (GRID_SIZE * GRID_SIZE - 1)

\* The integers handed to decode_action: range(64 * grid_size ** 2) of
\* test_encode_decode_action, and the integer on either side of it
ActionValues == -1 .. (64 * GRID_SIZE * GRID_SIZE)

\* range(grid_size) x range(grid_size)
GridPos == (0 .. (GRID_SIZE - 1)) \X (0 .. (GRID_SIZE - 1))

\* product(range(-1, 2), range(-1, 2)) without (0, 0)
KingVectors == ((-1 .. 1) \X (-1 .. 1)) \ { << 0, 0 >> }

\* The triples test_decode_encode_action hands to encode_action: a cell of the
\* grid, one king move from it and one king move from there, on the grid or not
MoveBuildTuples ==
    { << f, << f[1] + m[1], f[2] + m[2] >>,
            << f[1] + m[1] + b[1], f[2] + m[2] + b[2] >> >> :
        f \in GridPos, m \in KingVectors, b \in KingVectors }

\* The value a test starts from: an integer or a tuple, nothing computed yet
CodecInput(op, action, decoded) ==
    [ op |-> op, action |-> action, error |-> "none", decoded |-> decoded,
      encoded |-> -1, back |-> << >> ]

CodecInputs ==
    { CodecInput("action", action, << >>) : action \in ActionValues }
        \cup { CodecInput("tuple", -1, t) : t \in MoveBuildTuples }
        \cup { CodecInput("space_index", i, << >>) : i \in SpaceIndexValues }
        \cup { CodecInput("space_position", -1, p) : p \in GridPos }
        \cup { CodecInput("pair", -1, << p, q >>) : p \in GridPos, q \in GridPos }

\* An input is chosen; nothing is decoded or encoded yet
InitCodec ==
    /\ board_worker = EmptyBoardWorker
    /\ board_height = EmptyBoardHeight
    /\ board_game_over = FALSE
    /\ max_building_height = MAX_BUILDING_HEIGHT
    /\ selected_position = NoPos
    /\ selected_worker = None
    /\ workers = << >>
    /\ GameConstructed
    /\ last \in CodecInputs
    /\ nops = 0
    /\ turns = 0
    /\ restarts = 0
    /\ env = NoEnv
    /\ turn_start = NoTurn
    /\ renderer = NoRenderer

\* decoded_move = utils.decode_action(encoded_move, grid_size)
DecodeAction ==
    /\ last.op = "action"
    /\ LET d == decode_action(last.action, GRID_SIZE)
       IN last' = [ last EXCEPT !.op = "decode_action", !.error = d.error,
                                !.decoded = d.value ]
    /\ UNCHANGED << boardVars, gameVars, nops, turns, restarts >>

\* utils.encode_action(decoded_move, grid_size)
EncodeAction ==
    /\ last.op = "decode_action"
    /\ last.error = "none"
    /\ LET e == encode_action(last.decoded, GRID_SIZE)
       IN last' = [ last EXCEPT !.op = "encode_action", !.error = e.error,
                                !.encoded = e.value ]
    /\ UNCHANGED << boardVars, gameVars, nops, turns, restarts >>

\* action = utils.encode_action((move_from, move_to, build_on), grid_size)
EncodeTuple ==
    /\ last.op = "tuple"
    /\ LET e == encode_action(last.decoded, GRID_SIZE)
       IN last' = [ last EXCEPT !.op = "encode_tuple", !.error = e.error,
                                !.encoded = e.value ]
    /\ UNCHANGED << boardVars, gameVars, nops, turns, restarts >>

\* decoded_move_from, decoded_move_to, decoded_build_on =
\*     utils.decode_action(action, grid_size)
DecodeEncoded ==
    /\ last.op = "encode_tuple"
    /\ last.error = "none"
    /\ LET d == decode_action(last.encoded, GRID_SIZE)
       IN last' = [ last EXCEPT !.op = "decode_encoded", !.error = d.error,
                                !.back = d.value ]
    /\ UNCHANGED << boardVars, gameVars, nops, turns, restarts >>

\* decoded_space = utils.decode_space(encoded_space, grid_size)
DecodeSpace ==
    /\ last.op = "space_index"
    /\ last' = [ last EXCEPT !.op = "decode_space",
                             !.decoded = decode_space(last.action, GRID_SIZE) ]
    /\ UNCHANGED << boardVars, gameVars, nops, turns, restarts >>

\* utils.encode_space(decoded_space, grid_size)
EncodeDecodedSpace ==
    /\ last.op = "decode_space"
    /\ last' = [ last EXCEPT !.op = "encode_decoded_space",
                             !.encoded = encode_space(last.decoded, GRID_SIZE) ]
    /\ UNCHANGED << boardVars, gameVars, nops, turns, restarts >>

\* encoded_space = utils.encode_space((x, y), grid_size)
EncodeSpace ==
    /\ last.op = "space_position"
    /\ last' = [ last EXCEPT !.op = "encode_space",
                             !.encoded = encode_space(last.decoded, GRID_SIZE) ]
    /\ UNCHANGED << boardVars, gameVars, nops, turns, restarts >>

\* utils.decode_space(encoded_space, grid_size)
DecodeEncodedSpace ==
    /\ last.op = "encode_space"
    /\ last' = [ last EXCEPT !.op = "decode_encoded_space",
                             !.back = decode_space(last.encoded, GRID_SIZE) ]
    /\ UNCHANGED << boardVars, gameVars, nops, turns, restarts >>

\* utils.is_adjacent(p, q) and utils.is_adjacent(q, p)
IsAdjacent ==
    /\ last.op = "pair"
    /\ last' = [ last EXCEPT !.op = "is_adjacent",
                             !.back = << is_adjacent(last.decoded[1],
                                                     last.decoded[2]),
                                         is_adjacent(last.decoded[2],
                                                     last.decoded[1]) >> ]
    /\ UNCHANGED << boardVars, gameVars, nops, turns, restarts >>

NextCodec ==
    \/ DecodeAction /\ UNCHANGED auxVars
    \/ EncodeAction /\ UNCHANGED auxVars
    \/ EncodeTuple /\ UNCHANGED auxVars
    \/ DecodeEncoded /\ UNCHANGED auxVars
    \/ DecodeSpace /\ UNCHANGED auxVars
    \/ EncodeDecodedSpace /\ UNCHANGED auxVars
    \/ EncodeSpace /\ UNCHANGED auxVars
    \/ DecodeEncodedSpace /\ UNCHANGED auxVars
    \/ IsAdjacent /\ UNCHANGED auxVars

SpecCodec == InitCodec /\ [][NextCodec]_vars

\* ------------------------------------------- properties of the codec

\* a cell of the grid of size GRID_SIZE
OnGrid(position) ==
    /\ 0 <= position[1] /\ position[1] < GRID_SIZE
    /\ 0 <= position[2] /\ position[2] < GRID_SIZE

\* C20: for every integer a in [0, 1600) with grid size 5, decode_action(a)
\* succeeds and encode_action(decode_action(a)) returns a, the actions whose
\* decoded move-to or build-on position lies off the board included.
C20_EncodeDecodeRoundTrip ==
    /\ ( last.op = "decode_action"
          /\ 0 <= last.action /\ last.action < 64 * GRID_SIZE * GRID_SIZE )
       => last.error = "none"
    /\ last.op = "encode_action"
       => ( last.error = "none" /\ last.encoded = last.action )

\* encode_action was applied to a decoded action whose move-to or build-on
\* position lies off the board
C20_Witness ==
    /\ last.op = "encode_action"
    /\ OnGrid(last.decoded[1])
    /\ ~OnGrid(last.decoded[2]) \/ ~OnGrid(last.decoded[3])

\* C21: for every cell of the 5x5 board and every pair of non-zero king-move
\* vectors that keep move-to and build-on on the board, encode_action
\* succeeds and decode_action(encode_action((from, to, build))) is
\* (from, to, build); so encode_action is injective on these triples.
C21_DecodeEncodeRoundTrip ==
    ( /\ last.op \in { "encode_tuple", "decode_encoded" }
      /\ OnGrid(last.decoded[2])
      /\ OnGrid(last.decoded[3]) )
        => /\ last.error = "none"
           /\ last.encoded \in 0 .. (64 * GRID_SIZE * GRID_SIZE - 1)
           /\ last.op = "decode_encoded" => last.back = last.decoded

\* A triple off the diagonal of the board went through encode_action and back
C21_Witness ==
    /\ last.op = "decode_encoded"
    /\ last.back = last.decoded
    /\ last.decoded[1][1] # last.decoded[1][2]
    /\ OnGrid(last.decoded[2])
    /\ OnGrid(last.decoded[3])

\* The direction table in the order the claim gives: NW first, then clockwise
TableNWFirst == << << -1, -1 >>, << 0, -1 >>, << 1, -1 >>, << 1, 0 >>,
                   << 1, 1 >>, << 0, 1 >>, << -1, 1 >>, << -1, 0 >> >>

\* position + vector
Shifted(position, vector) ==
    << position[1] + vector[1], position[2] + vector[2] >>

\* C22: the action integer a = from_index * 64 + move_dir * 8 + build_dir
\* decodes with the table NW, N, NE, E, SE, S, SW, W (index 0 is NW):
\* move_to = move_from + table[move_dir], build_on = move_to + table[build_dir];
\* and encode_action uses the same table.
C22_TableOrderNWFirst ==
    /\ ( last.op = "decode_action" /\ last.error = "none" )
       => /\ last.decoded[2] =
                Shifted(last.decoded[1],
                        TableNWFirst[((last.action % 64) \div 8) + 1])
          /\ last.decoded[3] =
                Shifted(last.decoded[2], TableNWFirst[(last.action % 8) + 1])
    /\ ( last.op = "encode_tuple" /\ last.error = "none" )
       => /\ last.decoded[2] =
                Shifted(last.decoded[1],
                        TableNWFirst[((last.encoded % 64) \div 8) + 1])
          /\ last.decoded[3] =
                Shifted(last.decoded[2], TableNWFirst[(last.encoded % 8) + 1])

\* An action integer with move direction 0 was decoded
C22_Witness ==
    /\ last.op = "decode_action"
    /\ last.error = "none"
    /\ (last.action % 64) \div 8 = 0

\* C23: the single-cell encoding round-trips both ways on the 5x5 grid: for
\* every i in [0, 25) decode_space(i) has both coordinates in [0, 5) and
\* encode_space(decode_space(i)) = i; for every (x, y) with x, y in [0, 5)
\* encode_space((x, y)) is in [0, 25) and decode_space of it is (x, y).
C23_SpaceRoundTrip ==
    /\ last.op \in { "decode_space", "encode_decoded_space" }
       => OnGrid(last.decoded)
    /\ last.op = "encode_decoded_space" => last.encoded = last.action
    /\ last.op \in { "encode_space", "decode_encoded_space" }
       => last.encoded \in 0 .. (GRID_SIZE * GRID_SIZE - 1)
    /\ last.op = "decode_encoded_space" => last.back = last.decoded

\* An index of a cell off the diagonal went through decode_space and back
C23_Witness ==
    /\ last.op = "encode_decoded_space"
    /\ last.encoded = last.action
    /\ last.decoded[1] # last.decoded[2]

\* q is one king step away from p: another cell, at most one row and at most
\* one column apart (Chebyshev distance exactly 1)
KingStep(p, q) ==
    /\ p # q
    /\ p[1] - q[1] \in -1 .. 1
    /\ p[2] - q[2] \in -1 .. 1

\* C24: for all positions p, q of the 5x5 board, is_adjacent(p, q) is true
\* exactly when the Chebyshev distance of p and q is 1; it is symmetric and
\* false for p = q.
C24_AdjacentIffChebyshevOne ==
    last.op = "is_adjacent"
        => /\ last.back[1] <=> KingStep(last.decoded[1], last.decoded[2])
           /\ last.back[1] = last.back[2]
           /\ last.decoded[1] = last.decoded[2] => ~last.back[1]

\* is_adjacent was asked about two cells that touch at a corner only
C24_Witness ==
    /\ last.op = "is_adjacent"
    /\ last.back[1]
    /\ last.decoded[1][1] # last.decoded[2][1]
    /\ last.decoded[1][2] # last.decoded[2][2]

\* ------------------ SpecSized: the action codec on grids of other sizes
\* Side of the largest grid the codec is applied to
MaxGridSize == 6

\* The triples of king-move-connected cells of the grid of side grid_size
SizedTuples(grid_size) ==
    { t \in { << f, << f[1] + m[1], f[2] + m[2] >>,
                    << f[1] + m[1] + b[1], f[2] + m[2] + b[2] >> >> :
                f \in (0 .. (grid_size - 1)) \X (0 .. (grid_size - 1)),
                m \in KingVectors, b \in KingVectors } :
        \A i \in 1 .. 3 : /\ 0 <= t[i][1] /\ t[i][1] < grid_size
                          /\ 0 <= t[i][2] /\ t[i][2] < grid_size }

\* A grid size and a triple are chosen; nothing is encoded yet
SizedInputs ==
    { [ op |-> "sized_tuple", grid_size |-> g, error |-> "none", decoded |-> t,
        encoded |-> -1, back |-> << >> ] :
        g \in 2 .. MaxGridSize, t \in SizedTuples(MaxGridSize) }

InitSized ==
    /\ board_worker = EmptyBoardWorker
    /\ board_height = EmptyBoardHeight
    /\ board_game_over = FALSE
    /\ max_building_height = MAX_BUILDING_HEIGHT
    /\ selected_position = NoPos
    /\ selected_worker = None
    /\ workers = << >>
    /\ GameConstructed
    /\ last \in { i \in SizedInputs : i.decoded \in SizedTuples(i.grid_size) }
    /\ nops = 0
    /\ turns = 0
    /\ restarts = 0
    /\ env = NoEnv
    /\ turn_start = NoTurn
    /\ renderer = NoRenderer

\* action = utils.encode_action((move_from, move_to, build_on), grid_size)
EncodeSized ==
    /\ last.op = "sized_tuple"
    /\ LET e == encode_action(last.decoded, last.grid_size)
       IN last' = [ last EXCEPT !.op = "encode_sized", !.error = e.error,
                                !.encoded = e.value ]
    /\ UNCHANGED << boardVars, gameVars, nops, turns, restarts >>

\* utils.decode_action(action, grid_size)
DecodeSized ==
    /\ last.op = "encode_sized"
    /\ last.error = "none"
    /\ LET d == decode_action(last.encoded, last.grid_size)
       IN last' = [ last EXCEPT !.op = "decode_sized", !.error = d.error,
                                !.back = d.value ]
    /\ UNCHANGED << boardVars, gameVars, nops, turns, restarts >>

NextSized ==
    \/ EncodeSized /\ UNCHANGED auxVars
    \/ DecodeSized /\ UNCHANGED auxVars

SpecSized == InitSized /\ [][NextSized]_vars

\* C40: the action encoding round-trips for every grid size g >= 2, not only
\* 5: for every triple t of king-move-connected cells of the g x g board,
\* encode_action(t, g) succeeds and decode_action of it, with g, returns t.
C40_RoundTripEveryGridSize ==
    /\ last.op = "encode_sized" => last.error = "none"
    /\ last.op = "decode_sized" => ( last.error = "none" /\ last.back = last.decoded )

\* On the 3 x 3 grid a triple was encoded and decoded without error and another
\* triple came back
C40_Witness ==
    /\ last.op = "decode_sized"
    /\ last.grid_size = 3
    /\ last.error = "none"
    /\ last.back # last.decoded

\* ---------------- SpecEnv: SantoriniEnv (env.py) around a step-driven Game
\* SantoriniEnv(num_players): the player counts the Game accepts
EnvPlayerCounts == { 2, 3 }

\* agent_selection = None; the agent player_i is the index i
NoAgent == -1

\* A reward: what set it, and its value where the value is a result of the
\* game. The values of _calculate_setup_reward and _calculate_strategic_reward
\* (floats computed from Board.get_height) are not followed.
RewardZero == << "zero", 0 >>
RewardSetup == << "setup", 0 >>
RewardStrategic == << "strategic", 0 >>
RewardResult(value) == << "result", value >>

\* SantoriniEnv.__init__
EnvConstructed(num_players) ==
    [ built |-> TRUE,
      num_players |-> num_players,
      agent_selection |-> NoAgent,
      rewards |-> << >>,
      terminations |-> [ i \in 1 .. num_players |-> FALSE ] ]

InitEnv ==
    /\ board_worker = EmptyBoardWorker
    /\ board_height = EmptyBoardHeight
    /\ board_game_over = FALSE
    /\ max_building_height = GameMaxHeight
    /\ selected_position = NoPos
    /\ selected_worker = None
    /\ workers = << >>
    /\ GameConstructed
    /\ last = NoOp
    /\ nops = 0
    /\ turns = 0
    /\ restarts = 0
    /\ env \in { EnvConstructed(num_players) : num_players \in EnvPlayerCounts }
    /\ turn_start = NoTurn
    /\ renderer = NoRenderer

\* SantoriniEnv.reset: game.reset(), game.step(num_players), the selector on
\* the first agent, rewards and terminations cleared
EnvReset ==
    /\ env.built
    /\ restarts < MaxRestarts
    /\ board_worker' = EmptyBoardWorker
    /\ board_height' = EmptyBoardHeight
    /\ board_game_over' = FALSE
    /\ workers' = << >>
    /\ players' = init_players(env.num_players)
    /\ current_player_index' = 0
    /\ num_placed_workers' = 0
    /\ winner' = None
    /\ game_state' = "setup"
    /\ last' = StepDone(env.num_players, TRUE, "none")
    /\ restarts' = restarts + 1
    /\ env' = [ env EXCEPT
                  !.agent_selection = 0,
                  !.rewards = [ i \in 1 .. env.num_players |-> RewardZero ],
                  !.terminations = [ i \in 1 .. env.num_players |-> FALSE ] ]
    /\ UNCHANGED << max_building_height, selected_position, selected_worker,
                    moved_worker, player_action_sate, nops, turns, turn_start >>

\* SantoriniEnv.set_game_result: every agent terminated, result_val for the
\* first agent and its negation for every other agent
set_game_result(e, result_val) ==
    [ e EXCEPT
        !.terminations = [ i \in 1 .. e.num_players |-> TRUE ],
        !.rewards = [ i \in 1 .. e.num_players |->
                        RewardResult(result_val * (IF i - 1 = 0 THEN 1 ELSE -1)) ] ]

\* SantoriniEnv.step after game.step(action): nothing but the cleared reward
\* when game.step raised; else the result of the game or the reward of the
\* state, and the selector on the next agent
env_step(e, raised, state, win) ==
    LET sel == e.agent_selection + 1
        e0 == [ e EXCEPT !.rewards[sel] = RewardZero ]
        e1 == IF state = "game_over"
              THEN set_game_result(e0, IF win = 1 THEN 1 ELSE -1)
              ELSE IF state = "playing"
              THEN [ e0 EXCEPT !.rewards[sel] = RewardStrategic ]
              ELSE IF state = "setup"
              THEN [ e0 EXCEPT !.rewards[sel] = RewardSetup ]
              ELSE e0
    IN IF raised
       THEN e0
       ELSE [ e1 EXCEPT !.agent_selection = (e.agent_selection + 1) % e.num_players ]

\* SantoriniEnv.step may be called: reset has run and the selected agent is
\* not terminated (the step of a terminated agent is AECEnv._was_dead_step)
EnvLive ==
    /\ env.built
    /\ env.agent_selection # NoAgent
    /\ ~env.terminations[env.agent_selection + 1]

\* The action integers SantoriniEnv.step is given in PLAYING: those that
\* decode to a worker's cell, a cell to move to and a cell to build on
EnvActions ==
    { action \in 0 .. (64 * GRID_SIZE * GRID_SIZE - 1) :
        LET d == decode_action(action, GRID_SIZE).value
        IN /\ d[1] \in Occupied(board_worker)
           /\ d[2] \in Pos
           /\ d[3] \in Pos }

\* SantoriniEnv.step in SETUP
EnvStepSetup(action) ==
    /\ EnvLive
    /\ StepSetup(action)
    /\ env' = env_step(env, ~last'.legal, game_state', winner')
    /\ UNCHANGED turn_start

\* SantoriniEnv.step in PLAYING
EnvStepPlaying(action) ==
    /\ EnvLive
    /\ StepPlaying(decode_action(action, GRID_SIZE).value)
    /\ env' = env_step(env, ~last'.legal, game_state', winner')
    /\ UNCHANGED turn_start

NextEnv ==
    \/ EnvReset /\ UNCHANGED renderer
    \/ \E action \in SetupIndices : EnvStepSetup(action) /\ UNCHANGED renderer
    \/ \E action \in EnvActions : EnvStepPlaying(action) /\ UNCHANGED renderer

SpecEnv == InitEnv /\ [][NextEnv]_vars

\* Game.valid_actions in PLAYING, as SantoriniEnv.observe and the renderer
\* read it: the action integers of the valid actions of the current player
game_valid_actions(bw, bh, ws, mbh, ps, index) ==
    { encode_action(action, GRID_SIZE).value :
        action \in { a \in valid_actions(bw, bh, ws, mbh, ps, index) :
                        encode_action(a, GRID_SIZE).error = "none" } }

\* Faulty variant of action_mask: every agent is given the legal moves.
action_mask_AnyAgent(e, agent, legal_moves) == legal_moves

\* SantoriniEnv.observe, "action_mask": the indices set to 1
action_mask(e, agent, legal_moves) ==
    IF agent = e.agent_selection THEN legal_moves ELSE {}

\* Board.get_observation is called by SantoriniEnv.observe and by the renderer
\* and is not in board.py: it follows section 3 of the specification. Per cell
\* the channels 0 .. 6 as a tuple of 0 and 1: the height one-hot in channels
\* 0 .. 4 (capped is channel 4), the observing player's workers in channel 5,
\* the workers of the other players in channel 6.
\* Faulty variant of get_observation: the height itself is the channel.
get_observation_RawHeight(bw, bh, ws, observing_player_index) ==
    [ p \in Pos |->
        [ c \in 1 .. 7 |->
            IF c <= 5
            THEN IF bh[p] = c - 1 THEN 1 ELSE 0
            ELSE IF c = 6
            THEN IF bw[p] # EmptyWorker /\ ws[bw[p]].player = observing_player_index + 1
                 THEN 1 ELSE 0
            ELSE IF bw[p] # EmptyWorker /\ ws[bw[p]].player # observing_player_index + 1
                 THEN 1 ELSE 0 ] ]

get_observation(bw, bh, ws, observing_player_index) ==
    [ p \in Pos |->
        [ c \in 1 .. 7 |->
            IF c <= 5
            THEN IF (IF bh[p] = Inf THEN 4 ELSE bh[p]) = c - 1 THEN 1 ELSE 0
            ELSE IF c = 6
            THEN IF bw[p] # EmptyWorker /\ ws[bw[p]].player = observing_player_index + 1
                 THEN 1 ELSE 0
            ELSE IF bw[p] # EmptyWorker /\ ws[bw[p]].player # observing_player_index + 1
                 THEN 1 ELSE 0 ] ]

\* ------------------------------------- properties of SantoriniEnv
RECURSIVE SumRewards(_)
SumRewards(rewards) ==
    IF rewards = << >> THEN 0 ELSE Head(rewards)[2] + SumRewards(Tail(rewards))

\* The game of the environment has ended: the step that ended it has set the
\* result, and a terminated agent steps no more
EnvGameEnded == env.built /\ env.agent_selection # NoAgent /\ game_state = "game_over"

\* C26: after every game-ending environment step, for 2 and for 3 agents and
\* whichever player wins, the terminal rewards of all agents sum to zero,
\* exactly one agent, the winner's, receives +1, every other agent receives a
\* negative reward, and all agents are marked terminated.
C26_TerminalRewardsZeroSum ==
    EnvGameEnded =>
        /\ SumRewards(env.rewards) = 0
        /\ \A i \in 1 .. env.num_players :
              /\ env.terminations[i]
              /\ env.rewards[i][1] = "result"
              /\ IF i = winner THEN env.rewards[i][2] = 1 ELSE env.rewards[i][2] < 0

\* A three-agent game has ended
C26_Witness ==
    /\ EnvGameEnded
    /\ env.num_players = 3
    /\ winner \in 1 .. 3
    /\ last.op = "step"
    /\ last.legal

\* The agents of the environment
Agents == 0 .. (env.num_players - 1)

\* The mask observe(agent) returns in the current state
MaskOf(agent) ==
    action_mask(env, agent,
                game_valid_actions(board_worker, board_height, workers,
                                   max_building_height, players,
                                   current_player_index))

\* The (move-from, move-to, build-on) actions that are legal for the player
\* player_id by the rules, read from the cells of the board: a worker of the
\* player on move-from, a legal move to move-to, and build-on one step from
\* move-to, on the board and, unless the move wins, neither capped nor held by
\* a worker other than the mover
LegalActions(player_id) ==
    { a \in Pos \X Pos \X Pos :
        /\ board_worker[a[1]] # EmptyWorker
        /\ workers[board_worker[a[1]]].player = player_id
        /\ can_move(board_worker, board_height, workers, a[1], a[2])
        /\ is_adjacent(a[2], a[3])
        /\ \/ board_height[a[2]] = max_building_height
           \/ /\ board_height[a[3]] # Inf
              /\ \/ board_worker[a[3]] = EmptyWorker
                 \/ a[3] = a[1] }

\* C25: in every mid-game state of the environment, observe(agent) returns for
\* the selected agent a mask whose 1-indices, decoded with decode_action, are
\* exactly the legal (move-from, move-to, build-on) actions of the Game's
\* current player over all its workers, and an all-zero mask for every agent
\* that is not selected.
C25_MaskIsLegalActions ==
    ( env.built /\ env.agent_selection # NoAgent /\ game_state = "playing" ) =>
        \A agent \in Agents :
            IF agent = env.agent_selection
            THEN { decode_action(i, GRID_SIZE).value : i \in MaskOf(agent) }
                     = LegalActions(current_player_index + 1)
            ELSE MaskOf(agent) = {}

\* The second turn of a three-agent game: the selected agent has legal actions
\* in its mask, a winning move among them
C25_Witness ==
    /\ env.built
    /\ env.num_players = 3
    /\ game_state = "playing"
    /\ turns = 1
    /\ env.agent_selection = 1
    /\ \E i \in MaskOf(env.agent_selection) :
          board_height[decode_action(i, GRID_SIZE).value[2]] = max_building_height
    /\ \A agent \in Agents \ { env.agent_selection } : MaskOf(agent) = {}

\* The observation observe(agent) returns in the current state
ObservationOf(agent) ==
    get_observation(board_worker, board_height, workers, agent)

C39_SelectedAgentIsCurrentPlayer ==
    ( /\ env.built
      /\ env.agent_selection # NoAgent
      /\ game_state \in { "setup", "playing" } )
        => env.agent_selection = current_player_index

\* The first placement was accepted: the first player is to place its second
\* worker and the second agent is selected
C39_Witness ==
    /\ env.built
    /\ game_state = "setup"
    /\ last.op = "step"
    /\ last.legal
    /\ Cardinality(Occupied(board_worker)) = 1
    /\ current_player_index = 0
    /\ env.agent_selection = 1
    /\ env.rewards[1] = RewardSetup


\* ------- SpecRender: a human player clicks the actions of a SantoriniEnv
\* No action: _process_click returns None
NoAction == -1

\* PygameRenderer.__init__: nothing selected, nothing highlighted; returned is
\* what the last _process_click returned to get_human_action
RendererConstructed ==
    [ built |-> TRUE, selected_worker |-> NoPos, pending_move |-> NoPos,
      highlight_squares |-> {}, returned |-> NoAction ]

\* Game.valid_actions as the renderer reads it: the placement indices in SETUP,
\* the action integers of the current player in PLAYING
renderer_valid_actions(state, bw, bh, ws, mbh, ps, index) ==
    IF state = "setup"
    THEN get_valid_placement_actions(bw, ws)
    ELSE IF state = "playing"
    THEN game_valid_actions(bw, bh, ws, mbh, ps, index)
    ELSE {}

\* Faulty variant of _process_click: the build click returns any valid action
\* of the selected worker.
process_click_AnyBuild(r, state, valid, move) ==
    LET from_of(a) == decode_action(a, GRID_SIZE).value[1]
        to_of(a) == decode_action(a, GRID_SIZE).value[2]
        build_of(a) == decode_action(a, GRID_SIZE).value[3]
    IN IF state = "setup"
       THEN IF space_position_to_index(move) \in valid
            THEN { [ r EXCEPT !.returned = space_position_to_index(move) ] }
            ELSE { r }
       ELSE IF r.selected_worker = NoPos
       THEN IF move \in { from_of(a) : a \in valid }
            THEN { [ r EXCEPT !.selected_worker = move,
                              !.highlight_squares =
                                  { to_of(a) : a \in { v \in valid : from_of(v) = move } } ] }
            ELSE { r }
       ELSE IF r.pending_move = NoPos /\ move \in r.highlight_squares
       THEN { [ r EXCEPT !.pending_move = move,
                         !.highlight_squares =
                             { build_of(a) :
                                 a \in { v \in valid :
                                           /\ from_of(v) = r.selected_worker
                                           /\ to_of(v) = move } } ] }
       ELSE IF r.pending_move # NoPos /\ move \in r.highlight_squares
       THEN LET found == { a \in valid : from_of(a) = r.selected_worker }
            IN IF found = {}
               THEN { r }
               ELSE { [ RendererConstructed EXCEPT !.returned = a ] : a \in found }
       ELSE { r }

\* PygameRenderer._process_click(game, move): the renderer after the click,
\* returned being the action handed back or NoAction. highlight_squares is a
\* list in the code and is read for membership only; the loop of the build
\* click returns the first valid action that matches, whichever comes first.
process_click(r, state, valid, move) ==
    LET from_of(a) == decode_action(a, GRID_SIZE).value[1]
        to_of(a) == decode_action(a, GRID_SIZE).value[2]
        build_of(a) == decode_action(a, GRID_SIZE).value[3]
    IN IF state = "setup"
       THEN IF space_position_to_index(move) \in valid
            THEN { [ r EXCEPT !.returned = space_position_to_index(move) ] }
            ELSE { r }
       ELSE IF r.selected_worker = NoPos
       THEN IF move \in { from_of(a) : a \in valid }
            THEN { [ r EXCEPT !.selected_worker = move,
                              !.highlight_squares =
                                  { to_of(a) : a \in { v \in valid : from_of(v) = move } } ] }
            ELSE { r }
       ELSE IF r.pending_move = NoPos /\ move \in r.highlight_squares
       THEN { [ r EXCEPT !.pending_move = move,
                         !.highlight_squares =
                             { build_of(a) :
                                 a \in { v \in valid :
                                           /\ from_of(v) = r.selected_worker
                                           /\ to_of(v) = move } } ] }
       ELSE IF r.pending_move # NoPos /\ move \in r.highlight_squares
       THEN LET found == { a \in valid :
                             /\ from_of(a) = r.selected_worker
                             /\ to_of(a) = r.pending_move
                             /\ build_of(a) = move }
            IN IF found = {}
               THEN { r }
               ELSE { [ RendererConstructed EXCEPT !.returned = a ] : a \in found }
       ELSE { r }

\* SantoriniEnv(render_mode="human"): the env with its PygameRenderer
InitRender ==
    /\ board_worker = EmptyBoardWorker
    /\ board_height = EmptyBoardHeight
    /\ board_game_over = FALSE
    /\ max_building_height = GameMaxHeight
    /\ selected_position = NoPos
    /\ selected_worker = None
    /\ workers = << >>
    /\ GameConstructed
    /\ last = NoOp
    /\ nops = 0
    /\ turns = 0
    /\ restarts = 0
    /\ env \in { EnvConstructed(num_players) : num_players \in EnvPlayerCounts }
    /\ turn_start = NoTurn
    /\ renderer = RendererConstructed

\* The valid actions of the Game as it is
ValidNow ==
    renderer_valid_actions(game_state, board_worker, board_height, workers,
                           max_building_height, players, current_player_index)

\* The cells clicked: in SETUP the cells of SetupClicks, else any cell
RenderClicks ==
    IF game_state = "setup" THEN SetupClicks \cap Pos ELSE Pos

\* get_human_action, one left click on the cell move: _process_click
RenderClick(move) ==
    /\ EnvLive
    /\ renderer.built
    /\ renderer.returned = NoAction
    /\ game_state = "playing" => turns < MaxTurns
    /\ \E valid \in { ValidNow } :
         renderer' \in process_click(renderer, game_state, valid, move)
    /\ last' = [ NoOp EXCEPT !.op = "click", !.a = move ]
    /\ UNCHANGED << boardVars, gameVars, nops, turns, restarts, env, turn_start >>

\* SantoriniEnv.step with the action get_human_action returned, in SETUP
RenderStepSetup ==
    /\ renderer.built
    /\ renderer.returned # NoAction
    /\ EnvStepSetup(renderer.returned)
    /\ renderer' = [ renderer EXCEPT !.returned = NoAction ]

\* SantoriniEnv.step with the action get_human_action returned, in PLAYING
RenderStepPlaying ==
    /\ renderer.built
    /\ renderer.returned # NoAction
    /\ EnvStepPlaying(renderer.returned)
    /\ renderer' = [ renderer EXCEPT !.returned = NoAction ]

NextRender ==
    \/ EnvReset /\ UNCHANGED renderer
    \/ \E move \in RenderClicks : RenderClick(move)
    \/ RenderStepSetup
    \/ RenderStepPlaying

SpecRender == InitRender /\ [][NextRender]_vars


\* ------------------------------------- properties of the renderer
\* The cells a click may land on to go on with a legal action: in SETUP the
\* free cells; in PLAYING the cells of the current player's workers that have a
\* legal action, then the move targets of the selected worker, then the build
\* targets of the selected worker and the pending move
LegalClicks ==
    IF game_state = "setup"
    THEN { p \in Pos : can_place(board_worker, workers, p) }
    ELSE IF renderer.selected_worker = NoPos
    THEN { a[1] : a \in LegalActions(current_player_index + 1) }
    ELSE IF renderer.pending_move = NoPos
    THEN { a[2] : a \in { l \in LegalActions(current_player_index + 1) :
                            l[1] = renderer.selected_worker } }
    ELSE { a[3] : a \in { l \in LegalActions(current_player_index + 1) :
                            /\ l[1] = renderer.selected_worker
                            /\ l[2] = renderer.pending_move } }

\* C34: the click state machine of the human player only ever returns a
\* member of the game's current valid-action set: in SETUP the encoded clicked
\* cell if it is a legal placement, otherwise the action whose decoded
\* (from, to, build) equals the three accepted clicks; on return the
\* selection, the pending move and the highlights are cleared, and a click
\* outside the currently legal set changes no selection state.
C34_ClickReturnsValidAction ==
    [][ ( last'.op = "click" /\ renderer.returned = NoAction ) =>
          /\ renderer'.returned # NoAction =>
               /\ renderer'.returned \in ValidNow
               /\ IF game_state = "setup"
                  THEN /\ renderer'.returned = space_position_to_index(last'.a)
                       /\ can_place(board_worker, workers, last'.a)
                  ELSE decode_action(renderer'.returned, GRID_SIZE).value
                         = << renderer.selected_worker, renderer.pending_move,
                              last'.a >>
               /\ renderer'.selected_worker = NoPos
               /\ renderer'.pending_move = NoPos
               /\ renderer'.highlight_squares = {}
          /\ last'.a \notin LegalClicks => renderer' = renderer
      ]_vars

\* Three clicks in PLAYING have returned the action of a worker, its move and a
\* build on the cell it left, and the selection is cleared
C34_Witness ==
    /\ game_state = "playing"
    /\ last.op = "click"
    /\ renderer.returned # NoAction
    /\ renderer.selected_worker = NoPos
    /\ turns = 1
    /\ LET d == decode_action(renderer.returned, GRID_SIZE).value
       IN /\ d[3] = last.a
          /\ d[3] = d[1]
          /\ board_worker[d[1]] # EmptyWorker

====
